---- MODULE Spec2Model ----
(***************************************************************************)
(* Superior Plus Propane: the consumption engine and poll cycle of the     *)
(* coordinator (coordinator.py) and the per-region session clients         *)
(* (api_us.py, api_ca.py).                                                 *)
(*                                                                         *)
(* Numbers.  The code computes with binary floats; the model computes the  *)
(* same expressions over exact rationals [n, d] in lowest terms.  Field    *)
(* values of a tank record are strings in the code ("275", "unknown"); the *)
(* model writes a parseable field as the integer float() gives and an      *)
(* unparseable one as UNKNOWN.                                             *)
(***************************************************************************)
EXTENDS Integers, Sequences, FiniteSets, TLC

(***************************************************************************)
(* Bounds of the model.                                                    *)
(***************************************************************************)
MaxCycles == 3

(***************************************************************************)
(* Exact rational arithmetic.                                              *)
(***************************************************************************)
Abs(x) == IF x < 0 THEN -x ELSE x

RECURSIVE GCD(_, _)
GCD(a, b) == IF b = 0 THEN a ELSE GCD(b, a % b)

Rat(n, d) ==
    LET g == GCD(Abs(n), Abs(d))
        s == IF d < 0 THEN -1 ELSE 1
    IN  [n |-> (s * n) \div g, d |-> (s * d) \div g]

FromInt(i) == [n |-> i, d |-> 1]

RMul(a, b) ==
    LET g1 == GCD(Abs(a.n), b.d)
        g2 == GCD(Abs(b.n), a.d)
    IN  IF a.n = 0 \/ b.n = 0 THEN FromInt(0)
        ELSE [n |-> (a.n \div g1) * (b.n \div g2), d |-> (a.d \div g2) * (b.d \div g1)]

RAdd(a, b) ==
    LET g == GCD(a.d, b.d)
    IN  Rat(a.n * (b.d \div g) + b.n * (a.d \div g), (a.d \div g) * b.d)

RSub(a, b) == RAdd(a, [n |-> -b.n, d |-> b.d])

RAbs(a) == [n |-> Abs(a.n), d |-> a.d]

\* a / b for b > 0
RDiv(a, b) == RMul(a, [n |-> b.d, d |-> b.n])

RLess(a, b) ==
    LET g == GCD(a.d, b.d)
    IN  a.n * (b.d \div g) < b.n * (a.d \div g)

RLeq(a, b) == ~RLess(b, a)

RMax(a, b) == IF RLess(a, b) THEN b ELSE a

RMin(a, b) == IF RLess(b, a) THEN b ELSE a

\* round(x, 4): the nearest multiple of 1/10000, ties to even
Round4(x) ==
    LET g == GCD(10000, x.d)
        num == x.n * (10000 \div g)
        den == x.d \div g
        q == num \div den
        r == num % den
        up == (2 * r > den) \/ (2 * r = den /\ q % 2 = 1)
    IN  Rat(IF up THEN q + 1 ELSE q, 10000)

(***************************************************************************)
(* const.py                                                                *)
(***************************************************************************)
MIN_CONSUMPTION_PERCENTAGE == Rat(1, 10000)
MAX_CONSUMPTION_PERCENTAGE == Rat(5, 100)
DATA_VALIDATION_TOLERANCE == Rat(10, 100)
SECONDS_PER_HOUR == 3600
PERCENT_MULTIPLIER == 100
MAX_STALE_DATA_HOURS == 4

\* the "unknown" sentinel of an unextractable field: float() raises ValueError
UNKNOWN == -9999

(***************************************************************************)
(* region.py                                                               *)
(***************************************************************************)
US_REGION_CONFIG ==
    [region |-> "us",
     volume_to_energy_factor |-> Rat(3639, 100),
     default_update_interval |-> 3600,
     default_min_threshold |-> Rat(1, 100),
     default_max_threshold |-> Rat(25, 1),
     absolute_min_consumption |-> Rat(1, 100),
     absolute_max_consumption |-> Rat(50, 1),
     tank_size_min |-> 20,
     tank_size_max |-> 2000,
     max_api_retries |-> 2,
     retry_delay_seconds |-> 5,
     retry_interval |-> 300,
     auth_settle_delay |-> 0]

CA_REGION_CONFIG ==
    [region |-> "ca",
     volume_to_energy_factor |-> Rat(272297, 1000000),
     default_update_interval |-> 7200,
     default_min_threshold |-> Rat(1, 100),
     default_max_threshold |-> Rat(25, 1),
     absolute_min_consumption |-> Rat(1, 100),
     absolute_max_consumption |-> Rat(50, 1),
     tank_size_min |-> 18,
     tank_size_max |-> 227125,
     max_api_retries |-> 4,
     retry_delay_seconds |-> 60,
     retry_interval |-> 300,
     auth_settle_delay |-> 8]

get_region_config(r) == IF r = "us" THEN US_REGION_CONFIG ELSE CA_REGION_CONFIG

Regions == {"us", "ca"}

(***************************************************************************)
(* State.                                                                  *)
(***************************************************************************)
VARIABLES
    region,               \* the configured region code
    config,               \* config_entry.data: adaptive flag, overrides, interval
    previous_readings,    \* dict tank_id -> volume
    consumption_totals,   \* dict tank_id -> energy
    data_quality_flags,   \* dict tank_id -> flag
    update_interval,      \* seconds
    data,                 \* the snapshot the coordinator last returned (NoData: none)
    phase,                \* position of the poll cycle
    tanks_left,           \* tank ids of the fetched batch not yet processed
    tanks_data,           \* the batch as processed so far in this cycle
    cycles,               \* poll cycles run
    last,                 \* the last call of _process_tank_consumption
    reported,             \* per tank, the consumption_total last returned to the caller
    last_success_age,     \* seconds since last_successful_update_time (NEVER: None)
    outcome,              \* how the last poll cycle ended
    thresholds,           \* the last call of _calculate_dynamic_thresholds
    store,                \* the document the Store holds on disk
    cycle_error,          \* the client error that ended the last poll cycle
    callers,              \* the tasks that call the session client
    authenticated,        \* client._authenticated
    auth_in_progress,     \* client._auth_in_progress
    csrf_cookie,          \* the cookie jar holds csrf_cookie_name
    waiting,              \* callers that skipped _authenticate for the one in flight
    loc,                  \* per caller: the await it is suspended at and its locals
    ghost,                \* per caller: what its current call has done so far
    result,               \* per caller: how its last call ended
    calls                 \* client calls started

engineVars == <<config, previous_readings, consumption_totals,
                data_quality_flags, update_interval, data, phase, tanks_left,
                tanks_data, cycles, last, reported, last_success_age, outcome,
                thresholds, store, cycle_error>>

clientVars == <<callers, authenticated, auth_in_progress, csrf_cookie, waiting,
                loc, ghost, result, calls>>

vars == <<region, engineVars, clientVars>>

rc == get_region_config(region)

\* a dict as a function on the keys it holds
Get(dict, k, default) == IF k \in DOMAIN dict THEN dict[k] ELSE default

Put(dict, k, v) == [x \in DOMAIN dict \cup {k} |-> IF x = k THEN v ELSE dict[x]]

EmptyDict == [x \in {} |-> 0]

(***************************************************************************)
(* api_us.py, api_ca.py: the state of one session client and its callers.  *)
(***************************************************************************)
Callers == {"A", "B"}

\* a caller that is in no call of the client
IdleLocal ==
    [pc |-> "idle", op |-> "none", retry |-> FALSE, stage |-> "none",
     csrf_attempt |-> 0, login_attempt |-> 0, page_attempt |-> 0,
     offset |-> 0, tanks_data |-> <<>>]

NoGhost ==
    [tank_requests |-> 0, validation_failed |-> FALSE, auth_done |-> FALSE,
     first_error |-> "none", second_attempt |-> FALSE,
     requested |-> <<>>, pages |-> <<>>, last_failure |-> "none",
     inner |-> "none", rejected |-> FALSE, login_answers |-> 0,
     login_post |-> "none", auth_result |-> "none", no_token |-> FALSE,
     attempts |-> 0, waits |-> <<>>, net |-> "none", validated |-> FALSE]

NoResult == [outcome |-> "none", error |-> "none", tanks |-> <<>>]

\* the client as its constructor leaves it (api.py:63-64), with no caller
ClientUnused ==
    /\ callers = {}
    /\ authenticated = FALSE
    /\ auth_in_progress = FALSE
    /\ csrf_cookie = FALSE
    /\ waiting = {}
    /\ loc = [c \in Callers |-> IdleLocal]
    /\ ghost = [c \in Callers |-> NoGhost]
    /\ result = [c \in Callers |-> NoResult]
    /\ calls = 0

(***************************************************************************)
(* coordinator.py: the consumption engine.                                 *)
(***************************************************************************)
\* an override the config entry holds, or its absence (None)
Override(v) == [set |-> TRUE, val |-> v]

NoOverride == [set |-> FALSE, val |-> FromInt(0)]

normal_interval == config.update_interval

retry_interval == rc.retry_interval

use_dynamic_thresholds == config.adaptive_thresholds

min_threshold_override == config.min_consumption_threshold

max_threshold_override == config.max_consumption_threshold

\* float(x) of a field: succeeds on a number, raises ValueError on "unknown"
Parses(x) == x # UNKNOWN

\* mutant: with one override the other bound is computed whatever the
\* adaptive flag says
calculate_dynamic_thresholds_alwaysDynamic(tank_size, update_interval_hours) ==
    LET min_dynamic == RMax(rc.absolute_min_consumption,
                            RMul(RMul(FromInt(tank_size), MIN_CONSUMPTION_PERCENTAGE),
                                 update_interval_hours))
        max_dynamic == RMin(rc.absolute_max_consumption,
                            RMul(RMul(FromInt(tank_size), MAX_CONSUMPTION_PERCENTAGE),
                                 update_interval_hours))
    IN  IF min_threshold_override.set /\ max_threshold_override.set
        THEN [min |-> min_threshold_override.val, max |-> max_threshold_override.val]
        ELSE IF min_threshold_override.set \/ max_threshold_override.set
        THEN [min |-> IF min_threshold_override.set
                      THEN min_threshold_override.val ELSE min_dynamic,
              max |-> IF max_threshold_override.set
                      THEN max_threshold_override.val ELSE max_dynamic]
        ELSE IF ~use_dynamic_thresholds
        THEN [min |-> rc.default_min_threshold, max |-> rc.default_max_threshold]
        ELSE [min |-> min_dynamic, max |-> max_dynamic]

\* lines 106-164
calculate_dynamic_thresholds(tank_size, update_interval_hours) ==
    LET min_dynamic == RMax(rc.absolute_min_consumption,
                            RMul(RMul(FromInt(tank_size), MIN_CONSUMPTION_PERCENTAGE),
                                 update_interval_hours))
        max_dynamic == RMin(rc.absolute_max_consumption,
                            RMul(RMul(FromInt(tank_size), MAX_CONSUMPTION_PERCENTAGE),
                                 update_interval_hours))
    IN  IF min_threshold_override.set /\ max_threshold_override.set
        THEN [min |-> min_threshold_override.val, max |-> max_threshold_override.val]
        ELSE IF min_threshold_override.set \/ max_threshold_override.set
        THEN IF use_dynamic_thresholds
             THEN [min |-> IF min_threshold_override.set
                           THEN min_threshold_override.val ELSE min_dynamic,
                   max |-> IF max_threshold_override.set
                           THEN max_threshold_override.val ELSE max_dynamic]
             ELSE [min |-> IF min_threshold_override.set
                           THEN min_threshold_override.val ELSE rc.default_min_threshold,
                   max |-> IF max_threshold_override.set
                           THEN max_threshold_override.val ELSE rc.default_max_threshold]
        ELSE IF ~use_dynamic_thresholds
        THEN [min |-> rc.default_min_threshold, max |-> rc.default_max_threshold]
        ELSE [min |-> min_dynamic, max |-> max_dynamic]

\* the order of the checks of _validate_tank_data; each failing check sets
\* the tank's quality flag and returns False
TankSizeValid(tank) ==
    /\ Parses(tank.tank_size)
    /\ rc.tank_size_min <= tank.tank_size
    /\ tank.tank_size <= rc.tank_size_max

\* mutant: the upper bound of the level is not checked
LevelValid_noUpper(tank) ==
    /\ Parses(tank.level)
    /\ 0 <= tank.level

LevelValid(tank) ==
    /\ Parses(tank.level)
    /\ 0 <= tank.level
    /\ tank.level <= 100

expected_volume(tank) ==
    IF tank.tank_size > 0
    THEN Rat(tank.level * tank.tank_size, PERCENT_MULTIPLIER)
    ELSE FromInt(0)

variance(tank) ==
    RDiv(RAbs(RSub(FromInt(tank.current_volume), expected_volume(tank))),
         expected_volume(tank))

\* mutant: a deviation of exactly the tolerance is rejected
validate_tank_data_strict(tank, flags) ==
    LET tank_id == tank.tank_id
    IN  IF ~TankSizeValid(tank)
        THEN [ok |-> FALSE, flags |-> Put(flags, tank_id, "Invalid Tank Size")]
        ELSE IF ~LevelValid(tank)
        THEN [ok |-> FALSE, flags |-> Put(flags, tank_id, "Invalid Level")]
        ELSE IF ~Parses(tank.current_volume)
        THEN [ok |-> FALSE, flags |-> Put(flags, tank_id, "Calculation Error")]
        ELSE IF tank.tank_size > 0 /\ RLess(FromInt(0), expected_volume(tank))
        THEN IF RLeq(DATA_VALIDATION_TOLERANCE, variance(tank))
             THEN [ok |-> FALSE, flags |-> Put(flags, tank_id, "Inconsistent Values")]
             ELSE [ok |-> TRUE, flags |-> Put(flags, tank_id, "Good")]
        ELSE [ok |-> TRUE,
              flags |-> IF tank_id \notin DOMAIN flags
                        THEN Put(flags, tank_id, "Good") ELSE flags]

\* lines 166-230
validate_tank_data(tank, flags) ==
    LET tank_id == tank.tank_id
    IN  IF ~TankSizeValid(tank)
        THEN [ok |-> FALSE, flags |-> Put(flags, tank_id, "Invalid Tank Size")]
        ELSE IF ~LevelValid(tank)
        THEN [ok |-> FALSE, flags |-> Put(flags, tank_id, "Invalid Level")]
        ELSE IF ~Parses(tank.current_volume)
        THEN [ok |-> FALSE, flags |-> Put(flags, tank_id, "Calculation Error")]
        ELSE IF tank.tank_size > 0 /\ RLess(FromInt(0), expected_volume(tank))
        THEN IF RLess(DATA_VALIDATION_TOLERANCE, variance(tank))
             THEN [ok |-> FALSE, flags |-> Put(flags, tank_id, "Inconsistent Values")]
             ELSE [ok |-> TRUE, flags |-> Put(flags, tank_id, "Good")]
        ELSE [ok |-> TRUE,
              flags |-> IF tank_id \notin DOMAIN flags
                        THEN Put(flags, tank_id, "Good") ELSE flags]

\* mutant: the hours are those of the configured interval
update_interval_hours_configured ==
    RMax(Rat(1, 1000), Rat(normal_interval, SECONDS_PER_HOUR))

\* update_interval_hours of the cycle in force: max(0.001, seconds / 3600)
update_interval_hours ==
    LET interval == IF update_interval # 0 THEN update_interval ELSE normal_interval
    IN  RMax(Rat(1, 1000), Rat(interval, SECONDS_PER_HOUR))

\* the derived fields of a tank record on which _process_tank_consumption
\* returned before setting any (no tank_id)
NoDerived(tank) ==
    [tank_id |-> tank.tank_id, tank_size |-> tank.tank_size, level |-> tank.level,
     current_volume |-> tank.current_volume, derived |-> FALSE,
     refill_detected |-> FALSE, consumption_anomaly |-> FALSE,
     consumption_total |-> FromInt(0), consumption_rate |-> FromInt(0),
     data_quality |-> "absent"]

Derived(tank, total, rate, quality, refill, anomaly) ==
    [tank_id |-> tank.tank_id, tank_size |-> tank.tank_size, level |-> tank.level,
     current_volume |-> tank.current_volume, derived |-> TRUE,
     refill_detected |-> refill, consumption_anomaly |-> anomaly,
     consumption_total |-> total, consumption_rate |-> rate,
     data_quality |-> quality]

\* mutant: the energy of the delta replaces the total instead of adding to it
Accumulate_overwrite(tank, totals, previous) ==
    LET tank_id == tank.tank_id
        consumption_volume == previous[tank_id] - tank.current_volume
        consumption_energy == RMul(FromInt(consumption_volume), rc.volume_to_energy_factor)
    IN  IF tank_id \in DOMAIN previous /\ consumption_volume > 0
        THEN Put(totals, tank_id, consumption_energy)
        ELSE totals

\* mutant: a refill is accumulated like a consumption, with its negative delta
Accumulate_signed(tank, totals, previous) ==
    LET tank_id == tank.tank_id
        consumption_volume == previous[tank_id] - tank.current_volume
        consumption_energy == RMul(FromInt(consumption_volume), rc.volume_to_energy_factor)
    IN  IF tank_id \in DOMAIN previous /\ consumption_volume # 0
        THEN Put(totals, tank_id, RAdd(Get(totals, tank_id, FromInt(0)), consumption_energy))
        ELSE totals

\* lines 267-309: the delta against the previous reading and its accumulation
Accumulate(tank, totals, previous) ==
    LET tank_id == tank.tank_id
        consumption_volume == previous[tank_id] - tank.current_volume
        consumption_energy == RMul(FromInt(consumption_volume), rc.volume_to_energy_factor)
    IN  IF tank_id \in DOMAIN previous /\ consumption_volume > 0
        THEN Put(totals, tank_id, RAdd(Get(totals, tank_id, FromInt(0)), consumption_energy))
        ELSE totals

\* mutant: the previous readings are rebuilt from the record at hand
RecordReading_alone(tank, previous) == Put(EmptyDict, tank.tank_id, tank.current_volume)

\* mutant: the previous volume of a tank is its first reading
RecordReading_firstOnly(tank, previous) ==
    IF tank.tank_id \in DOMAIN previous THEN previous
    ELSE Put(previous, tank.tank_id, tank.current_volume)

\* mutant: a refill leaves the previous volume as it was
RecordReading_keepsOnRefill(tank, previous) ==
    IF tank.tank_id \in DOMAIN previous /\ previous[tank.tank_id] < tank.current_volume
    THEN previous
    ELSE Put(previous, tank.tank_id, tank.current_volume)

\* lines 311-312
RecordReading(tank, previous) == Put(previous, tank.tank_id, tank.current_volume)

\* mutant: the energy of the cycle is not divided by its hours
consumption_rate_perCycle(tank, previous) ==
    LET tank_id == tank.tank_id
        consumption_volume == previous[tank_id] - tank.current_volume
        consumption_energy == RMul(FromInt(consumption_volume), rc.volume_to_energy_factor)
    IN  IF tank_id \in DOMAIN previous /\ RLess(FromInt(0), update_interval_hours)
           /\ consumption_volume > 0
        THEN Round4(consumption_energy)
        ELSE FromInt(0)

\* lines 316-326
consumption_rate(tank, previous) ==
    LET tank_id == tank.tank_id
        consumption_volume == previous[tank_id] - tank.current_volume
        consumption_energy == RMul(FromInt(consumption_volume), rc.volume_to_energy_factor)
    IN  IF tank_id \in DOMAIN previous /\ RLess(FromInt(0), update_interval_hours)
           /\ consumption_volume > 0
        THEN Round4(RDiv(consumption_energy, update_interval_hours))
        ELSE FromInt(0)

\* mutant: the rejected reading is recorded as the previous volume
ValidationFailed_records(tank, previous, totals, flags) ==
    [tank |-> Derived(tank, Get(totals, tank.tank_id, FromInt(0)), FromInt(0),
                      Get(flags, tank.tank_id, "Unknown"), FALSE, FALSE),
     previous_readings |-> Put(previous, tank.tank_id, tank.current_volume),
     consumption_totals |-> totals,
     data_quality_flags |-> flags,
     valid |-> FALSE]

\* mutant: a rejected record is returned as it came
ValidationFailed_bare(tank, previous, totals, flags) ==
    [tank |-> NoDerived(tank),
     previous_readings |-> previous,
     consumption_totals |-> totals,
     data_quality_flags |-> flags,
     valid |-> FALSE]

\* lines 244-249: validation failed; the last stored total is reported and
\* neither the previous reading nor the total is touched
ValidationFailed(tank, previous, totals, flags) ==
    [tank |-> Derived(tank, Get(totals, tank.tank_id, FromInt(0)), FromInt(0),
                      Get(flags, tank.tank_id, "Unknown"), FALSE, FALSE),
     previous_readings |-> previous,
     consumption_totals |-> totals,
     data_quality_flags |-> flags,
     valid |-> FALSE]

\* _process_tank_consumption(tank): the record with its derived fields and the
\* three dicts after the call
process_tank_consumption(tank, previous, totals, flags) ==
    LET tank_id == tank.tank_id
        v == validate_tank_data(tank, flags)
        th == calculate_dynamic_thresholds(tank.tank_size, update_interval_hours)
        has_previous == tank_id \in DOMAIN previous
        consumption_volume == previous[tank_id] - tank.current_volume
        totals2 == Accumulate(tank, totals, previous)
    IN  IF tank_id = ""
        THEN [tank |-> NoDerived(tank), previous_readings |-> previous,
              consumption_totals |-> totals, data_quality_flags |-> flags,
              valid |-> FALSE]
        ELSE IF ~v.ok
        THEN ValidationFailed(tank, previous, totals, v.flags)
        ELSE [tank |-> Derived(tank, Get(totals2, tank_id, FromInt(0)),
                               consumption_rate(tank, previous),
                               Get(v.flags, tank_id, "Unknown"),
                               has_previous /\ consumption_volume < 0,
                               has_previous /\ consumption_volume > 0
                                   /\ ~RLess(FromInt(consumption_volume), th.min)
                                   /\ RLess(th.max, FromInt(consumption_volume))),
              previous_readings |-> RecordReading(tank, previous),
              consumption_totals |-> totals2, data_quality_flags |-> v.flags,
              valid |-> TRUE]

(***************************************************************************)
(* Inputs of the engine: the field values a fetched tank record may carry. *)
(***************************************************************************)
TankIds == {"", "t1", "t2"}

TankSizes == {UNKNOWN, 10, 100}

Levels == {UNKNOWN, 0, 50, 100, 150}

Volumes == {UNKNOWN, 45, 50, 55}

TankRecords ==
    [tank_id : TankIds, tank_size : TankSizes, level : Levels, current_volume : Volumes]

\* the readings of the poll-cycle specification: a 100-unit tank at 45, 50 or
\* 55 units, with a level that validates (50) or does not (150)
CycleRecords ==
    {r \in [tank_id : {"t1", "t2"}, tank_size : {100}, level : {50, 150},
            current_volume : {45, 50, 55}] :
        r.level = 150 => r.current_volume = 50}

\* the tank ids of one fetched batch, in the order fetched: each tank once
Batches == {<<>>, <<"t1">>, <<"t2">>, <<"t1", "t2">>, <<"t2", "t1">>}

\* an update interval the options flow accepts (config_flow.py: 300..86400 in
\* steps of 300) that is as long as the freshness window
LongInterval == 14400

\* the config entries of the model: the entry the setup flow creates with its
\* defaults (config_flow.py:109-134), an entry with no threshold keys, and a
\* fixed upper bound without adaptive thresholds
Configs(r) ==
    LET dflt == get_region_config(r)
    IN  {[adaptive_thresholds |-> TRUE,
          min_consumption_threshold |-> Override(dflt.default_min_threshold),
          max_consumption_threshold |-> Override(dflt.default_max_threshold),
          update_interval |-> dflt.default_update_interval],
         [adaptive_thresholds |-> TRUE,
          min_consumption_threshold |-> NoOverride,
          max_consumption_threshold |-> NoOverride,
          update_interval |-> dflt.default_update_interval],
         [adaptive_thresholds |-> FALSE,
          min_consumption_threshold |-> NoOverride,
          max_consumption_threshold |-> Override(FromInt(7)),
          update_interval |-> dflt.default_update_interval],
         [adaptive_thresholds |-> TRUE,
          min_consumption_threshold |-> NoOverride,
          max_consumption_threshold |-> NoOverride,
          update_interval |-> LongInterval]}

\* the config entries of the poll-cycle specification: adaptive thresholds,
\* no threshold keys
CycleConfigs(r) ==
    {c \in Configs(r) : c.adaptive_thresholds /\ ~c.min_consumption_threshold.set}

NoData == [set |-> FALSE, tanks |-> <<>>]

\* what a returned snapshot shows of a tank record: its id and derived
\* fields; `raised` marks the record on which _process_tank_consumption raised
Reported(tank) ==
    [tank_id |-> tank.tank_id, derived |-> tank.derived,
     consumption_total |-> tank.consumption_total,
     data_quality |-> tank.data_quality, raised |-> FALSE]

\* sensor.py, lines 437-442: the data quality sensor reads the record of the
\* snapshot, "Unknown" standing for a record without the field
native_value(tank_data) ==
    IF tank_data.data_quality = "absent" THEN "Unknown" ELSE tank_data.data_quality

\* the history of the accepted readings is not kept
NoHistory == [on |-> FALSE, base |-> EmptyDict, readings |-> EmptyDict]

\* the history after a load: the loaded totals, and the loaded previous
\* reading of each tank as the reading the next drop is measured from
Loaded(history, totals, previous) ==
    IF history.on
    THEN [on |-> TRUE, base |-> totals,
          readings |-> [t \in DOMAIN previous |-> <<previous[t]>>]]
    ELSE history

\* the history after the loop body ran on a record: a reading that passed
\* validation is appended to the accepted readings of its tank
Recorded(history, tank, valid) ==
    IF history.on /\ valid
    THEN [history EXCEPT !.readings =
              Put(@, tank.tank_id,
                  Append(Get(@, tank.tank_id, <<>>), tank.current_volume))]
    ELSE history

NoCall ==
    [acted |-> FALSE, valid |-> FALSE,
     tank |-> NoDerived([tank_id |-> "", tank_size |-> UNKNOWN, level |-> UNKNOWN,
                         current_volume |-> UNKNOWN]),
     has_previous |-> FALSE, previous_before |-> 0,
     has_total |-> FALSE, total_before |-> FromInt(0),
     flag_before |-> "absent", history |-> NoHistory]

\* the Store holds no document: async_load returns None
NoDocument == [saved |-> FALSE, consumption_totals |-> {}, previous_readings |-> {}]

\* a dict written as a JSON object: its members, name and value
JsonObject(dict) == {<<k, dict[k]>> : k \in DOMAIN dict}

\* a JSON object read back as a dict
JsonDict(object) ==
    [k \in {m[1] : m \in object} |-> (CHOOSE m \in object : m[1] = k)[2]]

\* lines 88-97: the document handed to Store.async_save
async_save_consumption_data(totals, previous) ==
    [saved |-> TRUE,
     consumption_totals |-> JsonObject(totals),
     previous_readings |-> JsonObject(previous)]

\* mutant: the previous readings are not taken from the document
async_load_consumption_data_totalsOnly(document, totals, previous) ==
    IF document.saved
    THEN [consumption_totals |-> JsonDict(document.consumption_totals),
          previous_readings |-> previous]
    ELSE [consumption_totals |-> totals, previous_readings |-> previous]

\* lines 80-86: the two dicts after the load
async_load_consumption_data(document, totals, previous) ==
    IF document.saved
    THEN [consumption_totals |-> JsonDict(document.consumption_totals),
          previous_readings |-> JsonDict(document.previous_readings)]
    ELSE [consumption_totals |-> totals, previous_readings |-> previous]

\* _calculate_dynamic_thresholds not yet called
NoThresholds ==
    [set |-> FALSE, tank_size |-> 0, hours |-> FromInt(0),
     min |-> FromInt(0), max |-> FromInt(0)]

\* last_successful_update_time is None
NEVER == -1

\* the poll cycles are update_interval apart: the age of the last success
\* when a cycle starts (ages beyond the freshness window are not told apart)
AgeAtCycleStart ==
    IF last_success_age = NEVER THEN NEVER
    ELSE IF last_success_age + update_interval < MAX_STALE_DATA_HOURS * SECONDS_PER_HOUR
         THEN last_success_age + update_interval
         ELSE MAX_STALE_DATA_HOURS * SECONDS_PER_HOUR

\* mutant: a snapshot is still fresh at the end of the window
is_data_fresh_inclusive(age) ==
    age # NEVER /\ age <= MAX_STALE_DATA_HOURS * SECONDS_PER_HOUR

\* _is_data_fresh
is_data_fresh(age) == age # NEVER /\ age < MAX_STALE_DATA_HOURS * SECONDS_PER_HOUR

(***************************************************************************)
(* coordinator.py: one poll cycle, _async_update_data.  The cycle is one   *)
(* sequential task; its steps are the awaited fetch, the loop body run     *)
(* once per fetched tank, and the save with the return.                    *)
(***************************************************************************)
InitEngine ==
    /\ region \in Regions
    /\ config \in CycleConfigs(region)
    /\ previous_readings = EmptyDict
    /\ consumption_totals = EmptyDict
    /\ data_quality_flags = EmptyDict
    /\ update_interval = config.update_interval
    /\ data = NoData
    /\ phase = "idle"
    /\ tanks_left = <<>>
    /\ tanks_data = <<>>
    /\ cycles = 0
    /\ last = NoCall
    /\ reported = EmptyDict
    /\ last_success_age = NEVER
    /\ outcome = "none"
    /\ thresholds = NoThresholds
    /\ store = NoDocument
    /\ cycle_error = "none"
    /\ ClientUnused

\* lines 346-348: both fetches returned, with records of the tanks `batch`
FetchSucceeds(batch) ==
    /\ phase = "idle"
    /\ cycles < MaxCycles
    /\ phase' = "processing"
    /\ tanks_left' = batch
    /\ tanks_data' = <<>>
    /\ last_success_age' = AgeAtCycleStart
    /\ UNCHANGED <<region, config, previous_readings, consumption_totals,
                   data_quality_flags, update_interval, data, cycles, last, reported,
                   outcome, thresholds, store, cycle_error,
                   clientVars>>

\* lines 350-362: the loop body for the next tank of the batch
ProcessTank(tank) ==
    /\ phase = "processing"
    /\ tanks_left # <<>>
    /\ tank.tank_id = Head(tanks_left)
    /\ \E res \in {process_tank_consumption(tank, previous_readings,
                                            consumption_totals, data_quality_flags)} :
           /\ previous_readings' = res.previous_readings
           /\ consumption_totals' = res.consumption_totals
           /\ data_quality_flags' = res.data_quality_flags
           /\ tanks_data' = Append(tanks_data, Reported(res.tank))
           /\ last' = [acted |-> TRUE, valid |-> res.valid, tank |-> res.tank,
                       has_previous |-> tank.tank_id \in DOMAIN previous_readings,
                       previous_before |-> Get(previous_readings, tank.tank_id, 0),
                       has_total |-> tank.tank_id \in DOMAIN consumption_totals,
                       total_before |-> Get(consumption_totals, tank.tank_id, FromInt(0)),
                       flag_before |-> Get(data_quality_flags, tank.tank_id, "absent"),
                       history |-> Recorded(last.history, res.tank, res.valid)]
    /\ tanks_left' = Tail(tanks_left)
    /\ UNCHANGED <<region, config, update_interval, data, phase, cycles, reported,
                   last_success_age, outcome, thresholds, store, cycle_error,
                   clientVars>>

\* the totals a returned batch shows, tank by tank
RECURSIVE ReportAll(_, _)
ReportAll(batch, shown) ==
    IF batch = <<>> THEN shown
    ELSE ReportAll(Tail(batch),
                   IF Head(batch).derived
                   THEN Put(shown, Head(batch).tank_id, Head(batch).consumption_total)
                   ELSE shown)

\* mutant: a save that fails ends the cycle as a client error does
FinishCycle_saveFatal(save_ok) ==
    /\ phase = "processing"
    /\ tanks_left = <<>>
    /\ update_interval' = IF save_ok THEN normal_interval ELSE retry_interval
    /\ data' = IF save_ok THEN [set |-> TRUE, tanks |-> tanks_data] ELSE data
    /\ reported' = IF save_ok THEN ReportAll(tanks_data, reported) ELSE reported
    /\ phase' = "idle"
    /\ cycles' = cycles + 1
    /\ last_success_age' = IF save_ok THEN 0 ELSE last_success_age
    /\ outcome' = IF save_ok THEN "updated" ELSE "api_error"
    /\ cycle_error' = IF save_ok THEN "none" ELSE "client"
    /\ store' = IF save_ok
                THEN async_save_consumption_data(consumption_totals, previous_readings)
                ELSE store
    /\ UNCHANGED <<region, config, previous_readings, consumption_totals,
                   data_quality_flags, tanks_left, tanks_data, last, thresholds,
                   clientVars>>

\* mutant: a successful cycle leaves the poll interval as it found it
FinishCycle_keepsInterval(save_ok) ==
    /\ phase = "processing"
    /\ tanks_left = <<>>
    /\ data' = [set |-> TRUE, tanks |-> tanks_data]
    /\ reported' = ReportAll(tanks_data, reported)
    /\ phase' = "idle"
    /\ cycles' = cycles + 1
    /\ last_success_age' = 0
    /\ outcome' = "updated"
    /\ cycle_error' = "none"
    /\ store' = IF save_ok
                THEN async_save_consumption_data(consumption_totals, previous_readings)
                ELSE store
    /\ UNCHANGED <<region, config, previous_readings, consumption_totals,
                   data_quality_flags, update_interval, tanks_left, tanks_data, last, thresholds,
                   clientVars>>

\* mutant: the exception of one record ends the cycle as a client error does
ProcessTankRaises_aborts(tank) ==
    /\ phase = "processing"
    /\ tanks_left # <<>>
    /\ tank.tank_id = Head(tanks_left)
    /\ tank.tank_id \in DOMAIN previous_readings
    /\ \E v \in {validate_tank_data(tank, data_quality_flags)} :
           /\ v.ok
           /\ data_quality_flags' = v.flags
    /\ tanks_left' = <<>>
    /\ phase' = "idle"
    /\ outcome' = "api_error"
    /\ cycles' = cycles + 1
    /\ UNCHANGED <<region, config, previous_readings, consumption_totals,
                   update_interval, data, tanks_data, last, reported,
                   last_success_age, thresholds, store, cycle_error,
                   clientVars>>

\* lines 350-362: _process_tank_consumption raises on a record and the loop
\* goes on.  The exception modelled is the one of line 269 (or of 292-301):
\* the stored previous reading (or total) of the tank is not a number
\* (async_load_consumption_data, lines 82-85, takes the document as it is),
\* so validation has flagged the record, lines 241-242 have run, and neither
\* dict has changed.
ProcessTankRaises(tank) ==
    /\ phase = "processing"
    /\ tanks_left # <<>>
    /\ tank.tank_id = Head(tanks_left)
    /\ tank.tank_id \in DOMAIN previous_readings
    /\ \E v \in {validate_tank_data(tank, data_quality_flags)} :
           /\ v.ok
           /\ data_quality_flags' = v.flags
    /\ tanks_data' = Append(tanks_data,
                            [Reported(NoDerived(tank)) EXCEPT !.raised = TRUE])
    /\ tanks_left' = Tail(tanks_left)
    /\ UNCHANGED <<region, config, previous_readings, consumption_totals,
                   update_interval, data, phase, cycles, last, reported,
                   last_success_age, outcome, thresholds, store, cycle_error,
                   clientVars>>

\* lines 364-367 and 388-391: save (best effort), reset the interval, return
FinishCycle(save_ok) ==
    /\ phase = "processing"
    /\ tanks_left = <<>>
    /\ update_interval' = normal_interval
    /\ data' = [set |-> TRUE, tanks |-> tanks_data]
    /\ reported' = ReportAll(tanks_data, reported)
    /\ phase' = "idle"
    /\ cycles' = cycles + 1
    /\ last_success_age' = 0
    /\ outcome' = "updated"
    /\ cycle_error' = "none"
    /\ store' = IF save_ok
                THEN async_save_consumption_data(consumption_totals, previous_readings)
                ELSE store
    /\ UNCHANGED <<region, config, previous_readings, consumption_totals,
                   data_quality_flags, tanks_left, tanks_data, last, thresholds,
                   clientVars>>

\* mutant: an authentication error backs the poll interval off like any
\* other error
CycleFails_backsOff(err) ==
    /\ phase = "idle"
    /\ cycles < MaxCycles
    /\ update_interval' =
           CASE err = "maintenance" -> SECONDS_PER_HOUR
             [] OTHER -> retry_interval
    /\ last_success_age' = AgeAtCycleStart
    /\ outcome' =
           CASE err = "auth" -> "auth_failed"
             [] err \in {"comm", "maintenance"} ->
                   IF data.set /\ is_data_fresh(AgeAtCycleStart)
                   THEN "stale" ELSE "communication_error"
             [] OTHER -> "api_error"
    /\ reported' = IF outcome' = "stale" THEN ReportAll(data.tanks, reported) ELSE reported
    /\ cycles' = cycles + 1
    /\ cycle_error' = err
    /\ UNCHANGED <<region, config, previous_readings, consumption_totals,
                   data_quality_flags, data, phase, tanks_left, tanks_data, last,
                   thresholds, store, clientVars>>

\* lines 369-387: a fetch raised.  A communication error returns the last
\* snapshot again while it is fresh; every other outcome raises.
CycleFails(err) ==
    /\ phase = "idle"
    /\ cycles < MaxCycles
    /\ update_interval' =
           CASE err = "auth" -> update_interval
             [] err = "maintenance" -> SECONDS_PER_HOUR
             [] OTHER -> retry_interval
    /\ last_success_age' = AgeAtCycleStart
    /\ outcome' =
           CASE err = "auth" -> "auth_failed"
             [] err \in {"comm", "maintenance"} ->
                   IF data.set /\ is_data_fresh(AgeAtCycleStart)
                   THEN "stale" ELSE "communication_error"
             [] OTHER -> "api_error"
    /\ reported' = IF outcome' = "stale" THEN ReportAll(data.tanks, reported) ELSE reported
    /\ cycles' = cycles + 1
    /\ cycle_error' = err
    /\ UNCHANGED <<region, config, previous_readings, consumption_totals,
                   data_quality_flags, data, phase, tanks_left, tanks_data, last,
                   thresholds, store, clientVars>>

\* the save of a cycle succeeds here; failing saves are part of the runs
\* with restarts below, where the stored document is read again
NextEngine ==
    \/ \E batch \in Batches : FetchSucceeds(batch)
    \/ \E tank \in CycleRecords : ProcessTank(tank)
    \/ FinishCycle(TRUE)
    \/ \E err \in {"auth", "comm", "maintenance", "client"} : CycleFails(err)

SpecEngine == InitEngine /\ [][NextEngine]_vars

(***************************************************************************)
(* __init__.py, coordinator.py: the poll cycles together with restarts.    *)
(* A restart builds a new coordinator and loads the stored document into   *)
(* it before the first refresh.                                            *)
(***************************************************************************)
\* __init__.py lines 66-80: the new coordinator and its load
async_setup_entry ==
    /\ phase = "idle"
    /\ \E loaded \in {async_load_consumption_data(store, EmptyDict, EmptyDict)} :
           /\ consumption_totals' = loaded.consumption_totals
           /\ previous_readings' = loaded.previous_readings
    /\ data_quality_flags' = EmptyDict
    /\ update_interval' = normal_interval
    /\ data' = NoData
    /\ last_success_age' = NEVER
    /\ outcome' = "loaded"
    /\ last' = [last EXCEPT !.history =
                    Loaded(@, consumption_totals', previous_readings')]
    /\ UNCHANGED <<region, config, phase, tanks_left, tanks_data, cycles,
                   reported, thresholds, store, cycle_error,
                   clientVars>>

InitPersistence ==
    /\ InitEngine
    /\ config.update_interval = get_region_config(region).default_update_interval

\* the batches of these runs: no tank, or both tanks
StoredBatches == {<<>>, <<"t1", "t2">>}

NextPersistence ==
    \/ \E batch \in StoredBatches : FetchSucceeds(batch)
    \/ \E tank \in CycleRecords : ProcessTank(tank)
    \/ \E save_ok \in BOOLEAN : FinishCycle(save_ok)
    \/ CycleFails("comm")
    \/ async_setup_entry

SpecPersistence == InitPersistence /\ [][NextPersistence]_vars

\* the cycles in which the processing of a record may raise
NextFaulty ==
    \/ \E batch \in StoredBatches : FetchSucceeds(batch)
    \/ \E tank \in CycleRecords : ProcessTank(tank)
    \/ \E tank \in CycleRecords : ProcessTankRaises(tank)
    \/ FinishCycle(TRUE)

SpecFaulty == InitPersistence /\ [][NextFaulty]_vars

(***************************************************************************)
(* coordinator.py: the poll cycle with its two fetches as separate steps.  *)
(* async_get_tanks_data returns or raises first; async_get_orders_data is  *)
(* awaited next, and the loop starts after both returned.                  *)
(***************************************************************************)
\* line 347: async_get_tanks_data returned the records of the tanks `batch`
FetchTanksReturns(batch) ==
    /\ phase = "idle"
    /\ cycles < MaxCycles
    /\ phase' = "fetched"
    /\ tanks_left' = batch
    /\ tanks_data' = <<>>
    /\ UNCHANGED <<region, config, previous_readings, consumption_totals,
                   data_quality_flags, update_interval, data, cycles, last, reported,
                   last_success_age, outcome, thresholds, store, cycle_error,
                   clientVars>>

\* line 348: async_get_orders_data returned
FetchOrdersReturns ==
    /\ phase = "fetched"
    /\ phase' = "processing"
    /\ last_success_age' = AgeAtCycleStart
    /\ UNCHANGED <<region, config, previous_readings, consumption_totals,
                   data_quality_flags, update_interval, data, tanks_left, tanks_data,
                   cycles, last, reported, outcome, thresholds, store, cycle_error,
                   clientVars>>

\* mutant: the orders are fetched after the loop, before the save
FetchOrdersRaises_afterLoop(err) ==
    /\ phase = "processing"
    /\ tanks_left = <<>>
    /\ tanks_data # <<>>
    /\ update_interval' =
           CASE err = "auth" -> update_interval
             [] err = "maintenance" -> SECONDS_PER_HOUR
             [] OTHER -> retry_interval
    /\ outcome' =
           CASE err = "auth" -> "auth_failed"
             [] err \in {"comm", "maintenance"} ->
                   IF data.set /\ is_data_fresh(last_success_age)
                   THEN "stale" ELSE "communication_error"
             [] OTHER -> "api_error"
    /\ reported' = IF outcome' = "stale" THEN ReportAll(data.tanks, reported) ELSE reported
    /\ phase' = "idle"
    /\ cycles' = cycles + 1
    /\ cycle_error' = err
    /\ UNCHANGED <<region, config, previous_readings, consumption_totals,
                   data_quality_flags, data, tanks_left, tanks_data, last,
                   last_success_age, thresholds, store, clientVars>>

\* lines 348 and 369-386: async_get_orders_data raised after the tanks were
\* fetched; the fetched list is dropped unprocessed (tanks_left keeps it as
\* the list the failed cycle had fetched)
FetchOrdersRaises(err) ==
    /\ phase = "fetched"
    /\ update_interval' =
           CASE err = "auth" -> update_interval
             [] err = "maintenance" -> SECONDS_PER_HOUR
             [] OTHER -> retry_interval
    /\ last_success_age' = AgeAtCycleStart
    /\ outcome' =
           CASE err = "auth" -> "auth_failed"
             [] err \in {"comm", "maintenance"} ->
                   IF data.set /\ is_data_fresh(AgeAtCycleStart)
                   THEN "stale" ELSE "communication_error"
             [] OTHER -> "api_error"
    /\ reported' = IF outcome' = "stale" THEN ReportAll(data.tanks, reported) ELSE reported
    /\ phase' = "idle"
    /\ cycles' = cycles + 1
    /\ cycle_error' = err
    /\ UNCHANGED <<region, config, previous_readings, consumption_totals,
                   data_quality_flags, data, tanks_left, tanks_data, last,
                   thresholds, store, clientVars>>

NextOrders ==
    \/ \E batch \in StoredBatches : FetchTanksReturns(batch)
    \/ FetchOrdersReturns
    \/ \E err \in {"auth", "comm", "maintenance", "client"} : FetchOrdersRaises(err)
    \/ \E err \in {"auth", "comm", "maintenance", "client"} : CycleFails(err)
    \/ \E tank \in CycleRecords : ProcessTank(tank)
    \/ FinishCycle(TRUE)

SpecOrders == InitPersistence /\ [][NextOrders]_vars

(***************************************************************************)
(* One call of _process_tank_consumption on any tank record, from the      *)
(* states earlier cycles (or a loaded store) leave for tank "t1": with or  *)
(* without a previous reading, a stored total and a quality flag.          *)
(***************************************************************************)
QualityFlags ==
    {"Good", "Invalid Tank Size", "Invalid Level", "Inconsistent Values",
     "Calculation Error"}

DictsOn(key, values) == {EmptyDict} \cup {Put(EmptyDict, key, v) : v \in values}

InitReading ==
    /\ region \in Regions
    /\ config \in Configs(region)
    /\ update_interval \in {config.update_interval, get_region_config(region).retry_interval}
    /\ previous_readings \in DictsOn("t1", Volumes \ {UNKNOWN})
    /\ consumption_totals \in
           DictsOn("t1", {RMul(FromInt(10), get_region_config(region).volume_to_energy_factor)})
    /\ "t1" \in DOMAIN consumption_totals => "t1" \in DOMAIN previous_readings
    /\ data_quality_flags \in DictsOn("t1", QualityFlags)
    /\ data = NoData
    /\ phase = "processing"
    /\ tanks_left \in {<<id>> : id \in TankIds}
    /\ tanks_data = <<>>
    /\ cycles = 0
    /\ last = NoCall
    /\ reported = EmptyDict
    /\ last_success_age = NEVER
    /\ outcome = "none"
    /\ thresholds = NoThresholds
    /\ store = NoDocument
    /\ cycle_error = "none"
    /\ ClientUnused

NextReading == \E tank \in TankRecords : ProcessTank(tank)

SpecReading == InitReading /\ [][NextReading]_vars

(***************************************************************************)
(* The poll cycles of one tank from the state a setup leaves: nothing      *)
(* stored, or a previous reading with or without a total loaded from the   *)
(* Store.  The accepted readings since the load are kept as history.       *)
(***************************************************************************)
InitAccounting ==
    /\ region \in Regions
    /\ config \in CycleConfigs(region)
    /\ config.update_interval = get_region_config(region).default_update_interval
    /\ previous_readings \in DictsOn("t1", {50, 55})
    /\ consumption_totals \in
           DictsOn("t1", {RMul(FromInt(10), get_region_config(region).volume_to_energy_factor)})
    /\ "t1" \in DOMAIN consumption_totals => "t1" \in DOMAIN previous_readings
    /\ data_quality_flags = EmptyDict
    /\ update_interval = config.update_interval
    /\ data = NoData
    /\ phase = "idle"
    /\ tanks_left = <<>>
    /\ tanks_data = <<>>
    /\ cycles = 0
    /\ last = [NoCall EXCEPT !.history =
                   Loaded([NoHistory EXCEPT !.on = TRUE],
                          consumption_totals, previous_readings)]
    /\ reported = EmptyDict
    /\ last_success_age = NEVER
    /\ outcome = "loaded"
    /\ thresholds = NoThresholds
    /\ store = async_save_consumption_data(consumption_totals, previous_readings)
    /\ cycle_error = "none"
    /\ ClientUnused

NextAccounting ==
    \/ \E batch \in {<<>>, <<"t1">>} : FetchSucceeds(batch)
    \/ \E tank \in CycleRecords : ProcessTank(tank)
    \/ \E save_ok \in BOOLEAN : FinishCycle(save_ok)
    \/ CycleFails("comm")
    \/ async_setup_entry

SpecAccounting == InitAccounting /\ [][NextAccounting]_vars

(***************************************************************************)
(* coordinator.py: the resolution of the thresholds, on its own.  The      *)
(* config entry holds any combination of the two overrides and the         *)
(* adaptive flag; the tank sizes are those _validate_tank_data lets        *)
(* through to the call.                                                    *)
(***************************************************************************)
\* update intervals the options flow accepts (300..86400 in steps of 300)
UpdateIntervals(r) == {300, get_region_config(r).default_update_interval, LongInterval, 86400}

\* values of the two threshold selectors (0.01..5.0 and 1..100)
MinOverrides == {NoOverride, Override(Rat(1, 100)), Override(FromInt(5))}

MaxOverrides == {NoOverride, Override(FromInt(1)), Override(FromInt(25))}

\* a field of the submitted form: absent, or present with a value
Absent(v) == [set |-> FALSE, val |-> v]

\* the form of the setup flow submitted with the optional fields left alone
DefaultInput ==
    [update_interval |-> Absent(0), adaptive_thresholds |-> Absent(TRUE),
     min_consumption_threshold |-> Absent(FromInt(0)),
     max_consumption_threshold |-> Absent(FromInt(0))]

\* config_flow.py async_step_credentials, lines 109-134: the data of the
\* entry created from the submitted form; user_input.get(key, default)
\* stores the default for an absent field
async_step_credentials(r, user_input) ==
    LET region_config == get_region_config(r)
        get(field, default) == IF field.set THEN field.val ELSE default
    IN  [adaptive_thresholds |-> get(user_input.adaptive_thresholds, TRUE),
         min_consumption_threshold |->
             Override(get(user_input.min_consumption_threshold,
                          region_config.default_min_threshold)),
         max_consumption_threshold |->
             Override(get(user_input.max_consumption_threshold,
                          region_config.default_max_threshold)),
         update_interval |-> get(user_input.update_interval,
                                 region_config.default_update_interval)]

\* both flows reject an entry whose two overrides have min >= max
ThresholdConfigs(r) ==
    {c \in [adaptive_thresholds : BOOLEAN,
            min_consumption_threshold : MinOverrides,
            max_consumption_threshold : MaxOverrides,
            update_interval : UpdateIntervals(r)] :
        ~(/\ c.min_consumption_threshold.set
          /\ c.max_consumption_threshold.set
          /\ RLeq(c.max_consumption_threshold.val, c.min_consumption_threshold.val))}

\* tank sizes within the bounds of the region
ValidTankSizes(r) ==
    {get_region_config(r).tank_size_min, 500, get_region_config(r).tank_size_max}

InitThresholds ==
    /\ region \in Regions
    /\ config \in ThresholdConfigs(region)
    /\ update_interval \in {config.update_interval, get_region_config(region).retry_interval}
    /\ previous_readings = EmptyDict
    /\ consumption_totals = EmptyDict
    /\ data_quality_flags = EmptyDict
    /\ data = NoData
    /\ phase = "processing"
    /\ tanks_left = <<>>
    /\ tanks_data = <<>>
    /\ cycles = 0
    /\ last = NoCall
    /\ reported = EmptyDict
    /\ last_success_age = NEVER
    /\ outcome = "none"
    /\ thresholds = NoThresholds
    /\ store = NoDocument
    /\ cycle_error = "none"
    /\ ClientUnused

\* lines 260-265: the call _process_tank_consumption makes for a tank
ResolveThresholds(tank_size) ==
    /\ \E th \in {calculate_dynamic_thresholds(tank_size, update_interval_hours)} :
           thresholds' = [set |-> TRUE, tank_size |-> tank_size,
                          hours |-> update_interval_hours,
                          min |-> th.min, max |-> th.max]
    /\ UNCHANGED <<region, config, previous_readings, consumption_totals,
                   data_quality_flags, update_interval, data, phase, tanks_left,
                   tanks_data, cycles, last, reported, last_success_age, outcome,
                   store, cycle_error,
                   clientVars>>

NextThresholds == \E tank_size \in ValidTankSizes(region) : ResolveThresholds(tank_size)

SpecThresholds == InitThresholds /\ [][NextThresholds]_vars

(***************************************************************************)
(* coordinator.py: one call of _process_tank_consumption under every       *)
(* config entry of the threshold resolution, on a half-full tank "t1" of   *)
(* a valid size whose previous reading was higher by a small amount.       *)
(***************************************************************************)
\* the volumes consumed since the previous reading
ConsumedVolumes == {1, 4, 30, 60}

\* a consistent reading of a half-full tank
HalfFull(tank_size) ==
    [tank_id |-> "t1", tank_size |-> tank_size, level |-> 50,
     current_volume |-> tank_size \div 2]

InitAnomaly ==
    /\ region \in Regions
    /\ config \in ThresholdConfigs(region)
    /\ update_interval \in {config.update_interval, get_region_config(region).retry_interval}
    /\ \E tank_size \in ValidTankSizes(region) :
           previous_readings \in
               DictsOn("t1", {HalfFull(tank_size).current_volume + d : d \in ConsumedVolumes})
    /\ consumption_totals = EmptyDict
    /\ data_quality_flags = EmptyDict
    /\ data = NoData
    /\ phase = "processing"
    /\ tanks_left = <<"t1">>
    /\ tanks_data = <<>>
    /\ cycles = 0
    /\ last = NoCall
    /\ reported = EmptyDict
    /\ last_success_age = NEVER
    /\ outcome = "none"
    /\ thresholds = NoThresholds
    /\ store = NoDocument
    /\ cycle_error = "none"
    /\ ClientUnused

\* the reading is of the tank the previous reading was taken of
NextAnomaly ==
    \E tank_size \in ValidTankSizes(region) :
        /\ "t1" \in DOMAIN previous_readings =>
               previous_readings["t1"] - HalfFull(tank_size).current_volume
                   \in ConsumedVolumes
        /\ ProcessTank(HalfFull(tank_size))

SpecAnomaly == InitAnomaly /\ [][NextAnomaly]_vars

(***************************************************************************)
(* api_us.py, api_ca.py: the session clients.  A caller runs without       *)
(* interruption from one await to the next; each action below is the       *)
(* arrival of what a caller awaits (a response, a timeout, the end of a    *)
(* sleep) together with everything the caller does until it awaits again.  *)
(* The operators take and give the machine m: the shared fields of the     *)
(* client, and the locals l, the history g and the result r of the caller  *)
(* that runs.                                                              *)
(*                                                                         *)
(* Errors: "auth" AuthenticationError, "comm" CommunicationError, "client" *)
(* the base ClientError, "timeout" a bare TimeoutError, "other" any other  *)
(* exception.                                                              *)
(***************************************************************************)
_TANK_PAGE_SIZE == 10

Machine(c) ==
    [authenticated |-> authenticated, auth_in_progress |-> auth_in_progress,
     csrf_cookie |-> csrf_cookie, waiting |-> waiting,
     c |-> c, l |-> loc[c], g |-> ghost[c], r |-> result[c]]

\* the ghost of a call keeps the history of its requests (the answers to the
\* login POST and to the last request, the waits of a retry loop) in the runs
\* of a single caller; the runs of two callers keep what tells their
\* interleavings apart
Kept(g) ==
    IF callers = {"A"} THEN g
    ELSE [g EXCEPT !.login_post = "none", !.auth_result = "none",
                   !.no_token = FALSE, !.attempts = 0, !.waits = <<>>,
                   !.net = "none", !.validated = FALSE]

Apply(c, m) ==
    /\ authenticated' = m.authenticated
    /\ auth_in_progress' = m.auth_in_progress
    /\ csrf_cookie' = m.csrf_cookie
    /\ waiting' = m.waiting
    /\ loc' = [loc EXCEPT ![c] = m.l]
    /\ ghost' = [ghost EXCEPT ![c] = Kept(m.g)]
    /\ result' = [result EXCEPT ![c] = m.r]

Count(n) == IF n < 3 THEN n + 1 ELSE n

\* api.py async_test_connection, lines 404-405: async_get_tanks_data returned
TestReturns(m, tanks) ==
    [m EXCEPT !.l = IdleLocal,
              !.g.inner = IF tanks # <<>> THEN "tanks" ELSE "empty",
              !.r = [outcome |-> IF Len(tanks) > 0 THEN "true" ELSE "false",
                     error |-> "none", tanks |-> <<>>]]

\* mutant: only the authentication error is caught
TestRaises_authOnly(m, err) ==
    [m EXCEPT !.l = IdleLocal,
              !.g.inner = err,
              !.r = IF err = "auth"
                    THEN [outcome |-> "false", error |-> "none", tanks |-> <<>>]
                    ELSE [outcome |-> "raised", error |-> err, tanks |-> <<>>]]

\* api.py async_test_connection, lines 406-409: async_get_tanks_data raised;
\* the authentication error and the base error with its subclasses are caught
TestRaises(m, err) ==
    [m EXCEPT !.l = IdleLocal,
              !.g.inner = err,
              !.r = IF err \in {"auth", "comm", "client"}
                    THEN [outcome |-> "false", error |-> "none", tanks |-> <<>>]
                    ELSE [outcome |-> "raised", error |-> err, tanks |-> <<>>]]

\* the call returns `tanks` to its caller
Return(m, tanks) ==
    IF m.l.op = "testConnection" THEN TestReturns(m, tanks)
    ELSE [m EXCEPT !.l = IdleLocal,
                   !.r = [outcome |-> "returned", error |-> "none", tanks |-> tanks]]

\* the call raises `err` to its caller
RaiseToCaller(m, err) ==
    IF m.l.op = "testConnection" THEN TestRaises(m, err)
    ELSE [m EXCEPT !.l = IdleLocal,
                   !.r = [outcome |-> "raised", error |-> err, tanks |-> <<>>]]

\* api_us.py _get_tanks_from_page: the GET of the tank page is issued
GetTankPage(m) ==
    [m EXCEPT !.l.pc = "tank",
              !.g.tank_requests = Count(m.g.tank_requests)]

\* api_ca.py _get_tanks_from_api, lines 268-287: the POST of one page
PostTankPage(m) ==
    [m EXCEPT !.l.pc = "page", !.l.stage = "none", !.l.csrf_attempt = 0,
              !.g.tank_requests = Count(m.g.tank_requests),
              !.g.attempts = m.g.attempts + 1,
              !.g.requested =
                  IF m.g.requested # <<>>
                         /\ m.g.requested[Len(m.g.requested)] = m.l.offset
                  THEN m.g.requested
                  ELSE Append(m.g.requested, m.l.offset)]

\* api_ca.py _login, lines 223-231: the login POST of one attempt
PostLogin(m) ==
    [m EXCEPT !.l.pc = "login", !.l.stage = "none", !.l.csrf_attempt = 0]

\* api_ca.py _get_orders_totals, lines 393-413: the POST of one attempt
PostOrders(m) ==
    [m EXCEPT !.l.pc = "orders", !.l.stage = "none", !.l.csrf_attempt = 0,
              !.g.attempts = m.g.attempts + 1]

\* api_ca.py _get_csrf_token, lines 161-175: the cookie lookup, and the first
\* GET of the login page when the jar does not hold the cookie
get_csrf_token(m, stage) ==
    IF m.csrf_cookie
    THEN IF stage = "auth"
         THEN PostLogin([m EXCEPT !.l.login_attempt = 1])
         ELSE IF stage = "orders" THEN PostOrders(m)
         ELSE PostTankPage(m)
    ELSE [m EXCEPT !.l.pc = "csrfpage", !.l.stage = stage, !.l.csrf_attempt = 1]

\* the retry loop of one request starts: api_ca.py:264-265, 390-391
FirstAttempt(m) ==
    [m EXCEPT !.l.page_attempt = 1, !.g.attempts = 0, !.g.waits = <<>>]

\* api_ca.py _get_tanks_from_api, lines 259-267: the page loop starts
get_tanks_from_api(m) ==
    get_csrf_token(FirstAttempt([m EXCEPT !.l.offset = 0, !.l.tanks_data = <<>>]),
                   "page")

\* api_ca.py async_get_orders_data (83-85) and _get_orders_totals up to the
\* first attempt (383-392)
get_orders_totals(m) == get_csrf_token(FirstAttempt(m), "orders")

\* what follows _ensure_authenticated in the operation the caller runs
AfterEnsure(m) ==
    IF m.l.op = "ensureAuthenticated" THEN Return(m, <<>>)
    ELSE IF region = "us" THEN GetTankPage(m)
    ELSE get_tanks_from_api(m)

\* api_ca.py _ensure_authenticated, lines 109-110: the settle delay
Settle(m) ==
    IF rc.auth_settle_delay > 0
    THEN [m EXCEPT !.l.pc = "settle", !.l.stage = "none",
                   !.l.csrf_attempt = 0, !.l.login_attempt = 0]
    ELSE AfterEnsure(m)

\* mutant: the sequence starts without raising the in-progress flag
authenticate_unflagged(m) ==
    [m EXCEPT !.l.pc = IF region = "us" THEN "csrf" ELSE "loginpage",
              !.l.stage = "auth", !.g.rejected = FALSE,
              !.g.login_post = "none", !.g.auth_result = "none",
              !.g.no_token = FALSE]

\* _authenticate past its guard, up to its first request (api_us.py:118-123,
\* api_ca.py:117-126)
authenticate(m) ==
    [m EXCEPT !.auth_in_progress = TRUE,
              !.l.pc = IF region = "us" THEN "csrf" ELSE "loginpage",
              !.l.stage = "auth", !.g.rejected = FALSE,
              !.g.login_post = "none", !.g.auth_result = "none",
              !.g.no_token = FALSE]

\* the end of _ensure_authenticated: api_us.py:110-111, api_ca.py:107-110
EnsureTail(m) ==
    IF region = "us"
    THEN IF ~m.authenticated /\ ~m.auth_in_progress THEN authenticate(m)
         ELSE AfterEnsure([m EXCEPT !.waiting =
                              IF ~m.authenticated THEN m.waiting \cup {m.c}
                              ELSE m.waiting])
    ELSE IF ~m.authenticated
         THEN IF m.auth_in_progress
              THEN Settle([m EXCEPT !.waiting = m.waiting \cup {m.c}])
              ELSE authenticate(m)
         ELSE AfterEnsure(m)

\* mutant: the step authenticates whatever the session flag says
ensure_authenticated_fresh(m) ==
    IF ~m.auth_in_progress THEN authenticate(m) ELSE EnsureTail(m)

\* _ensure_authenticated up to its first await: api_us.py:96-99, api_ca.py:89-96
ensure_authenticated(m) ==
    IF m.authenticated THEN [m EXCEPT !.l.pc = "validate"] ELSE EnsureTail(m)

\* mutant: every authentication error is answered with another attempt
FetchRaises_again(m, err) ==
    IF region = "us" /\ err = "auth"
    THEN ensure_authenticated(
             [m EXCEPT !.authenticated = FALSE, !.l.retry = TRUE,
                       !.g.first_error = err, !.g.second_attempt = TRUE,
                       !.g.auth_done = FALSE])
    ELSE RaiseToCaller(m, err)

\* an exception reaches async_get_tanks_data: api_us.py:82-92 (one more
\* attempt on an authentication error, inside the handler), api_ca.py:76-81
\* (no handler)
FetchRaises(m, err) ==
    IF region = "us"
    THEN IF m.l.retry THEN RaiseToCaller(m, err)
         ELSE IF err = "auth"
         THEN ensure_authenticated(
                  [m EXCEPT !.authenticated = FALSE, !.l.retry = TRUE,
                            !.g.first_error = err, !.g.second_attempt = TRUE,
                            !.g.auth_done = FALSE])
         ELSE RaiseToCaller([m EXCEPT !.g.first_error = err],
                            IF err \in {"comm", "client"} THEN err ELSE "client")
    ELSE RaiseToCaller([m EXCEPT !.g.first_error = err], err)

\* an exception leaves _ensure_authenticated
EnsureRaises(m, err) ==
    IF m.l.op = "ensureAuthenticated" THEN RaiseToCaller(m, err)
    ELSE FetchRaises(m, err)

\* mutant: a failing sequence leaves the in-progress flag up
AuthenticateRaises_stuck(m, err) ==
    LET raised == IF region = "ca" /\ err \in {"client", "other"} THEN "auth" ELSE err
    IN  EnsureRaises([m EXCEPT !.authenticated = FALSE,
                               !.waiting = {},
                               !.l.stage = "none", !.l.csrf_attempt = 0,
                               !.l.login_attempt = 0,
                               !.g.auth_result = raised],
                     raised)

\* mutant: every exception leaves _authenticate as it was raised
AuthenticateRaises_unwrapped(m, err) ==
    EnsureRaises([m EXCEPT !.authenticated = FALSE, !.auth_in_progress = FALSE,
                           !.waiting = {},
                           !.l.stage = "none", !.l.csrf_attempt = 0,
                           !.l.login_attempt = 0,
                           !.g.auth_result = err],
                 err)

\* an exception inside _authenticate: api_us.py:128-132, api_ca.py:145-157
\* (there every exception but the authentication error, the communication
\* error and the timeout becomes an authentication error)
AuthenticateRaises(m, err) ==
    LET raised == IF region = "ca" /\ err \in {"client", "other"} THEN "auth" ELSE err
    IN  EnsureRaises([m EXCEPT !.authenticated = FALSE, !.auth_in_progress = FALSE,
                               !.waiting = {},
                               !.l.stage = "none", !.l.csrf_attempt = 0,
                               !.l.login_attempt = 0,
                               !.g.auth_result = raised],
                     raised)

\* _authenticate succeeded: api_us.py:126-132, api_ca.py:142-157
AuthenticateDone(m) ==
    LET done == [m EXCEPT !.authenticated = TRUE, !.auth_in_progress = FALSE,
                          !.waiting = {}, !.g.auth_done = TRUE,
                          !.g.auth_result = "done",
                          !.l.stage = "none", !.l.login_attempt = 0]
    IN  IF region = "us" THEN AfterEnsure(done) ELSE Settle(done)

\* mutant: the validation failure leaves the session marked authenticated
SessionInvalid_kept(m, exception) ==
    EnsureTail([m EXCEPT !.g.validation_failed = TRUE])

\* the validation request failed: api_us.py:103-111, api_ca.py:97-110
SessionInvalid(m, exception) ==
    EnsureTail([m EXCEPT !.authenticated = FALSE,
                         !.csrf_cookie = IF region = "us" /\ exception
                                         THEN FALSE ELSE m.csrf_cookie,
                         !.g.validation_failed = TRUE, !.g.auth_done = FALSE])

\* mutant: the same delay before every attempt
RetryDelay_flat(attempt) == rc.retry_delay_seconds + 10

\* api_ca.py:349-351, 373-375, 474-476: the delay after a failed attempt
RetryDelay(attempt) == rc.retry_delay_seconds + (attempt * 10)

\* the sleep before the next attempt of a request (api_ca.py:349, 373, 474)
Sleep(m) ==
    [m EXCEPT !.l.pc = "pagesleep", !.l.stage = "none", !.l.csrf_attempt = 0,
              !.g.waits = Append(m.g.waits, RetryDelay(m.l.page_attempt))]

\* mutant: a failure on the last attempt raises whatever has been collected
PageAttemptFails_raises(m, err) ==
    IF m.l.page_attempt = rc.max_api_retries
    THEN FetchRaises([m EXCEPT !.g.last_failure = err],
                     IF err = "json" THEN "client" ELSE "comm")
    ELSE Sleep(m)

\* api_ca.py:334-375: a JSON error ("json"), a timeout or a communication
\* error in one attempt of a page
PageAttemptFails(m, err) ==
    IF m.l.page_attempt = rc.max_api_retries
    THEN IF m.l.tanks_data # <<>>
         THEN Return([m EXCEPT !.g.last_failure = err], m.l.tanks_data)
         ELSE FetchRaises([m EXCEPT !.g.last_failure = err],
                          IF err = "json" THEN "client" ELSE "comm")
    ELSE Sleep(m)

\* api_ca.py _get_orders_totals, lines 466-478: a timeout or a communication
\* error in one attempt of the orders request
OrdersAttemptFails(m, err) ==
    IF m.l.page_attempt = rc.max_api_retries
    THEN RaiseToCaller([m EXCEPT !.g.last_failure = err], "comm")
    ELSE Sleep(m)

\* api_ca.py:466-479: an exception inside the try of one attempt of the
\* orders request; async_get_orders_data (83-85) has no handler
OrdersRaises(m, err) ==
    IF err \in {"timeout", "comm"} THEN OrdersAttemptFails(m, err)
    ELSE RaiseToCaller(m, err)

\* api_ca.py:334-378: an exception inside the try of one page attempt
PageRaises(m, err) ==
    IF err \in {"json", "timeout", "comm"} THEN PageAttemptFails(m, err)
    ELSE FetchRaises(m, err)

\* an exception leaves _get_csrf_token (api_ca.py:184-201)
CsrfRaises(m, err) ==
    IF m.l.stage = "auth" THEN AuthenticateRaises(m, err)
    ELSE IF m.l.stage = "orders" THEN OrdersRaises(m, err)
    ELSE PageRaises(m, err)

\* the tank numbers of the rows of one page that parse: row i of the page is
\* tank offset + i (api_ca.py:321-325); the rows that do not parse come first
PageTanks(offset, rows, bad) == [i \in 1..(rows - bad) |-> offset + bad + i]

\* mutant: a short page does not end the pagination
AcceptPage_ignoresShort(m, page) ==
    LET tanks == m.l.tanks_data \o PageTanks(m.l.offset, page.rows, page.bad)
        logged == [m EXCEPT !.g.pages = Append(m.g.pages, [page EXCEPT !.offset = m.l.offset])]
    IN  IF ~page.status
        THEN IF m.l.tanks_data # <<>> /\ page.rows = 0
             THEN Return(logged, m.l.tanks_data)
             ELSE FetchRaises(m, "client")
        ELSE IF page.rows = 0 THEN Return(logged, m.l.tanks_data)
        ELSE IF page.finished # "false"
        THEN Return(logged, tanks)
        ELSE get_csrf_token(FirstAttempt(
                                [logged EXCEPT !.l.tanks_data = tanks,
                                               !.l.offset = m.l.offset + _TANK_PAGE_SIZE]),
                            "page")

\* mutant: the next page is requested at the offset of the accepted one
AcceptPage_sameOffset(m, page) ==
    LET tanks == m.l.tanks_data \o PageTanks(m.l.offset, page.rows, page.bad)
        tanks_in_batch == page.rows - page.bad
        finished == page.finished # "false" \/ tanks_in_batch < _TANK_PAGE_SIZE
        logged == [m EXCEPT !.g.pages = Append(m.g.pages, [page EXCEPT !.offset = m.l.offset])]
    IN  IF ~page.status
        THEN IF m.l.tanks_data # <<>> /\ page.rows = 0
             THEN Return(logged, m.l.tanks_data)
             ELSE FetchRaises(m, "client")
        ELSE IF page.rows = 0 THEN Return(logged, m.l.tanks_data)
        ELSE IF finished
        THEN Return(logged, tanks)
        ELSE get_csrf_token(FirstAttempt([logged EXCEPT !.l.tanks_data = tanks]),
                            "page")

\* api_ca.py:289-332: a page that decoded
AcceptPage(m, page) ==
    LET tanks == m.l.tanks_data \o PageTanks(m.l.offset, page.rows, page.bad)
        tanks_in_batch == page.rows - page.bad
        finished == page.finished # "false" \/ tanks_in_batch < _TANK_PAGE_SIZE
        logged == [m EXCEPT !.g.pages = Append(m.g.pages, [page EXCEPT !.offset = m.l.offset])]
    IN  IF ~page.status
        THEN IF m.l.tanks_data # <<>> /\ page.rows = 0
             THEN Return(logged, m.l.tanks_data)
             ELSE FetchRaises(m, "client")
        ELSE IF page.rows = 0 THEN Return(logged, m.l.tanks_data)
        ELSE IF finished
        THEN Return(logged, tanks)
        ELSE get_csrf_token(FirstAttempt(
                                [logged EXCEPT !.l.tanks_data = tanks,
                                               !.l.offset = m.l.offset + _TANK_PAGE_SIZE]),
                            "page")

(***************************************************************************)
(* What the portal may answer.                                             *)
(***************************************************************************)
MaxCalls == 3

MaxPages == 2

ValidateResponses == {"ok", "invalid", "exception"}

UsCsrfResponses == {"ok", "status", "notoken", "timeout", "exception"}

\* the login POST of the US portal: an OK response elsewhere than on a login
\* URL, a response on a login URL, a response that is not OK, none in time,
\* any other exception of the request
UsLoginResponses == {"ok", "rejected", "status", "timeout", "exception"}

WarmupResponses == {"ok", "timeout", "exception"}

UsTankResponses == {"tanks", "expired", "status", "empty", "timeout", "exception"}

CaLoginPageResponses ==
    {"ok_cookie", "ok_nocookie", "maintenance", "status", "timeout", "exception"}

CaCsrfPageResponses == {"ok_cookie", "ok_nocookie", "status", "timeout", "exception"}

\* the login POST of the CA portal: the final URL of the response (the
\* dashboard, the login page, any other) with an OK status, "status" a
\* response that is not OK on the URL of the POST, "dashboard_error" one that
\* is not OK on the dashboard
CaLoginResponses ==
    {"dashboard", "dashboard_error", "individualLogin", "unexpected", "status",
     "timeout", "exception"}

\* a response of the tank API that decodes: the status flag, the rows of
\* "data", how many of them do not parse, and "finished" (possibly absent)
JsonPages ==
    {p \in [kind : {"json"}, offset : {0}, status : BOOLEAN,
            rows : {0, 3, _TANK_PAGE_SIZE}, bad : {0, 1},
            finished : {"true", "false", "absent"}] :
        p.bad <= p.rows}

\* a response that is not OK, no response in time, a body that is not JSON,
\* the login page (status OK after the redirect, an HTML body), any other
\* exception of the request
CaPageFailures ==
    [kind : {"status", "timeout", "badjson", "login", "exception"}, offset : {0},
     status : {FALSE}, rows : {0}, bad : {0}, finished : {"absent"}]

\* the tank rows of the US tank page, as parsed
UsTanks == <<1, 2>>

(***************************************************************************)
(* The actions of the session clients.                                     *)
(***************************************************************************)
NewCall(m, op) ==
    [m EXCEPT !.l = [IdleLocal EXCEPT !.op = op], !.g = NoGhost,
              !.r = [outcome |-> "pending", error |-> "none", tanks |-> <<>>]]

\* async_get_tanks_data is called: api_us.py:77-81, api_ca.py:76-81
fetchTanks(c) ==
    /\ c \in callers
    /\ loc[c].pc = "idle"
    /\ calls < MaxCalls
    /\ calls' = calls + 1
    /\ \E m \in {ensure_authenticated(
                     IF region = "us" THEN NewCall(Machine(c), "fetchTanks")
                     ELSE [NewCall(Machine(c), "fetchTanks")
                              EXCEPT !.csrf_cookie = FALSE, !.authenticated = FALSE])} :
           Apply(c, m)
    /\ UNCHANGED <<region, engineVars, callers>>

\* api.py async_test_connection, lines 401-404: the call of
\* async_get_tanks_data on the client
testConnection(c) ==
    /\ c \in callers
    /\ loc[c].pc = "idle"
    /\ calls < MaxCalls
    /\ calls' = calls + 1
    /\ \E m \in {ensure_authenticated(
                     IF region = "us" THEN NewCall(Machine(c), "testConnection")
                     ELSE [NewCall(Machine(c), "testConnection")
                              EXCEPT !.csrf_cookie = FALSE, !.authenticated = FALSE])} :
           Apply(c, m)
    /\ UNCHANGED <<region, engineVars, callers>>

\* api_ca.py async_get_orders_data, lines 83-85: the orders request, on the
\* session as the call before left it
fetchOrders(c) ==
    /\ region = "ca"
    /\ c \in callers
    /\ loc[c].pc = "idle"
    /\ calls < MaxCalls
    /\ calls' = calls + 1
    /\ \E m \in {get_orders_totals(NewCall(Machine(c), "fetchOrders"))} :
           Apply(c, m)
    /\ UNCHANGED <<region, engineVars, callers>>

\* _ensure_authenticated is called on its own
ensureAuthenticated(c) ==
    /\ c \in callers
    /\ loc[c].pc = "idle"
    /\ calls < MaxCalls
    /\ calls' = calls + 1
    /\ \E m \in {ensure_authenticated(NewCall(Machine(c), "ensureAuthenticated"))} :
           Apply(c, m)
    /\ UNCHANGED <<region, engineVars, callers>>

\* the validation GET ends: api_us.py:98-108, api_ca.py:90-105
ValidateResponse(c, resp) ==
    /\ loc[c].pc = "validate"
    /\ \E m \in {IF resp = "ok"
                 THEN IF region = "us"
                      THEN AfterEnsure([Machine(c) EXCEPT !.g.validated = TRUE])
                      ELSE EnsureTail([Machine(c) EXCEPT !.g.validated = TRUE])
                 ELSE SessionInvalid(Machine(c), resp = "exception")} :
           Apply(c, m)
    /\ UNCHANGED <<region, engineVars, callers, calls>>

\* how a request to the portal ended, as the client tells it: no response
\* in time, a response whose status is not OK, any other
NetKind(resp) ==
    CASE resp = "timeout" -> "timeout"
      [] resp \in {"status", "dashboard_error"} -> "status"
      [] OTHER -> "ok"

\* caller c resumes with the answer to its request; the ghost keeps how the
\* last request of a call of async_get_tanks_data ended
Answered(c, resp) ==
    [Machine(c) EXCEPT !.g.net = IF loc[c].op = "fetchTanks"
                                 THEN NetKind(resp) ELSE "none"]

\* api_us.py _get_csrf_token (134-170), then the login POST (182-185)
UsCsrfResponse(c, resp) ==
    /\ region = "us"
    /\ loc[c].pc = "csrf"
    /\ \E m \in {CASE resp = "ok" -> [Answered(c, resp) EXCEPT !.l.pc = "login"]
                   [] resp \in {"status", "timeout"} -> AuthenticateRaises(Answered(c, resp), "comm")
                   [] resp = "notoken" ->
                        AuthenticateRaises([Answered(c, resp) EXCEPT !.g.no_token = TRUE],
                                           "client")
                   [] OTHER -> AuthenticateRaises(Answered(c, resp), "other")} :
           Apply(c, m)
    /\ UNCHANGED <<region, engineVars, callers, calls>>

\* api_us.py _login: the POST ends (182-188), the first warm-up GET follows
UsLoginResponse(c, resp) ==
    /\ region = "us"
    /\ loc[c].pc = "login"
    /\ \E m \in {LET m0 == [Answered(c, resp) EXCEPT !.g.login_post = resp]
                 IN  CASE resp = "ok" -> [m0 EXCEPT !.l.pc = "home"]
                       [] resp \in {"rejected", "status"} ->
                            AuthenticateRaises([m0 EXCEPT !.g.rejected = TRUE], "auth")
                       [] resp = "timeout" -> AuthenticateRaises(m0, "comm")
                       [] OTHER -> AuthenticateRaises(m0, "other")} :
           Apply(c, m)
    /\ UNCHANGED <<region, engineVars, callers, calls>>

\* api_us.py _login: the GET of the home page ends (line 193)
UsHomeResponse(c, resp) ==
    /\ region = "us"
    /\ loc[c].pc = "home"
    /\ \E m \in {CASE resp = "ok" -> [Machine(c) EXCEPT !.l.pc = "customers"]
                   [] resp = "timeout" -> AuthenticateRaises(Machine(c), "comm")
                   [] OTHER -> AuthenticateRaises(Machine(c), "other")} :
           Apply(c, m)
    /\ UNCHANGED <<region, engineVars, callers, calls>>

\* api_us.py _login: the GET of the customers page ends (line 194)
UsCustomersResponse(c, resp) ==
    /\ region = "us"
    /\ loc[c].pc = "customers"
    /\ \E m \in {CASE resp = "ok" -> AuthenticateDone(Machine(c))
                   [] resp = "timeout" -> AuthenticateRaises(Machine(c), "comm")
                   [] OTHER -> AuthenticateRaises(Machine(c), "other")} :
           Apply(c, m)
    /\ UNCHANGED <<region, engineVars, callers, calls>>

\* api_us.py _get_tanks_from_page: the GET of the tank page ends (200-244)
UsTankResponse(c, resp) ==
    /\ region = "us"
    /\ loc[c].pc = "tank"
    /\ \E m \in {CASE resp = "tanks" -> Return(Answered(c, resp), UsTanks)
                   [] resp = "expired" ->
                        FetchRaises([Answered(c, resp) EXCEPT
                                         !.authenticated = FALSE,
                                         !.g.login_answers = Count(@)], "auth")
                   [] resp \in {"status", "timeout"} -> FetchRaises(Answered(c, resp), "comm")
                   [] resp = "empty" -> FetchRaises(Answered(c, resp), "client")
                   [] OTHER -> FetchRaises(Answered(c, resp), "other")} :
           Apply(c, m)
    /\ UNCHANGED <<region, engineVars, callers, calls>>

\* api_ca.py _authenticate: the GET of the login page ends (121-139)
CaLoginPageResponse(c, resp) ==
    /\ region = "ca"
    /\ loc[c].pc = "loginpage"
    /\ \E m \in {CASE resp = "ok_cookie" ->
                        get_csrf_token([Answered(c, resp) EXCEPT !.csrf_cookie = TRUE], "auth")
                   [] resp = "ok_nocookie" -> get_csrf_token(Answered(c, resp), "auth")
                   [] resp \in {"maintenance", "status"} ->
                        AuthenticateRaises(Answered(c, resp), "comm")
                   [] resp = "timeout" -> AuthenticateRaises(Answered(c, resp), "timeout")
                   [] OTHER -> AuthenticateRaises(Answered(c, resp), "other")} :
           Apply(c, m)
    /\ UNCHANGED <<region, engineVars, callers, calls>>

\* api_ca.py _get_csrf_token: one GET of its retry loop ends (166-201)
CaCsrfPageResponse(c, resp) ==
    /\ region = "ca"
    /\ loc[c].pc = "csrfpage"
    /\ \E m \in {LET m0 == Answered(c, resp)
                     last_attempt == m0.l.csrf_attempt = rc.max_api_retries
                 IN  CASE resp = "ok_cookie" ->
                            get_csrf_token([m0 EXCEPT !.csrf_cookie = TRUE], m0.l.stage)
                       [] resp = "ok_nocookie" ->
                            IF m0.csrf_cookie THEN get_csrf_token(m0, m0.l.stage)
                            ELSE IF last_attempt
                            THEN CsrfRaises([m0 EXCEPT !.g.no_token =
                                                           m0.l.stage = "auth"],
                                            "auth")
                            ELSE [m0 EXCEPT !.l.pc = "csrfsleep"]
                       [] resp \in {"status", "timeout"} ->
                            IF last_attempt THEN CsrfRaises(m0, "comm")
                            ELSE [m0 EXCEPT !.l.csrf_attempt = m0.l.csrf_attempt + 1]
                       [] OTHER -> CsrfRaises(m0, "other")} :
           Apply(c, m)
    /\ UNCHANGED <<region, engineVars, callers, calls>>

\* api_ca.py _login: the POST of one attempt ends (221-255)
CaLoginResponse(c, resp) ==
    /\ region = "ca"
    /\ loc[c].pc = "login"
    /\ \E m \in {LET m0 == [Answered(c, resp) EXCEPT !.g.login_post = resp]
                     last_attempt == m0.l.login_attempt = rc.max_api_retries
                 IN  CASE resp \in {"dashboard", "dashboard_error"} ->
                            AuthenticateDone(m0)
                       [] resp = "individualLogin" ->
                            IF last_attempt
                            THEN AuthenticateRaises([m0 EXCEPT !.g.rejected = TRUE], "auth")
                            ELSE [m0 EXCEPT !.l.pc = "loginsleep", !.g.rejected = TRUE]
                       [] resp \in {"unexpected", "status"} ->
                            AuthenticateRaises(m0, "client")
                       [] resp = "timeout" ->
                            IF last_attempt THEN AuthenticateRaises(m0, "comm")
                            ELSE [m0 EXCEPT !.l.pc = "loginsleep"]
                       [] OTHER -> AuthenticateRaises(m0, "other")} :
           Apply(c, m)
    /\ UNCHANGED <<region, engineVars, callers, calls>>

\* api_ca.py _get_tanks_from_api: the POST of one page ends (283-378)
CaPageResponse(c, resp) ==
    /\ region = "ca"
    /\ loc[c].pc = "page"
    /\ \E m \in {CASE resp.kind = "json" -> AcceptPage(Answered(c, resp.kind), resp)
                   [] resp.kind = "status" -> PageRaises(Answered(c, resp.kind), "comm")
                   [] resp.kind = "timeout" -> PageRaises(Answered(c, resp.kind), "timeout")
                   [] resp.kind = "badjson" -> PageRaises(Answered(c, resp.kind), "json")
                   [] resp.kind = "login" ->
                        PageRaises([Answered(c, resp.kind) EXCEPT !.g.login_answers = Count(@)],
                                   "json")
                   [] OTHER -> PageRaises(Answered(c, resp.kind), "other")} :
           /\ m.l.offset < MaxPages * _TANK_PAGE_SIZE
           /\ Apply(c, m)
    /\ UNCHANGED <<region, engineVars, callers, calls>>

\* api_ca.py _get_orders_totals: the POST of one attempt ends (407-479); the
\* rows of the answer are summed without another request
CaOrdersResponse(c, resp) ==
    /\ region = "ca"
    /\ loc[c].pc = "orders"
    /\ \E m \in {CASE resp = "ok" -> Return(Machine(c), <<>>)
                   [] resp = "status" -> OrdersRaises(Machine(c), "comm")
                   [] resp = "timeout" -> OrdersRaises(Machine(c), "timeout")
                   [] OTHER -> OrdersRaises(Machine(c), "other")} :
           Apply(c, m)
    /\ UNCHANGED <<region, engineVars, callers, calls>>

\* a sleep ends: api_ca.py:182 and 242-255 (between attempts), 109-110 (the
\* settle delay), 346-375 (between the attempts of a page)
CaSleepEnds(c) ==
    /\ region = "ca"
    /\ loc[c].pc \in {"csrfsleep", "loginsleep", "settle", "pagesleep"}
    /\ \E m \in {LET m0 == Machine(c)
                 IN  CASE m0.l.pc = "csrfsleep" ->
                            [m0 EXCEPT !.l.pc = "csrfpage",
                                       !.l.csrf_attempt = m0.l.csrf_attempt + 1]
                       [] m0.l.pc = "loginsleep" ->
                            PostLogin([m0 EXCEPT !.l.login_attempt = m0.l.login_attempt + 1])
                       [] m0.l.pc = "settle" -> AfterEnsure(m0)
                       [] OTHER ->
                            get_csrf_token([m0 EXCEPT !.l.page_attempt =
                                                          m0.l.page_attempt + 1],
                                           IF m0.l.op = "fetchOrders"
                                           THEN "orders" ELSE "page")} :
           Apply(c, m)
    /\ UNCHANGED <<region, engineVars, callers, calls>>

\* the engine is not part of the runs of the client
EngineUnused ==
    /\ config \in {c \in CycleConfigs(region) :
                      c.update_interval = get_region_config(region).default_update_interval}
    /\ previous_readings = EmptyDict
    /\ consumption_totals = EmptyDict
    /\ data_quality_flags = EmptyDict
    /\ update_interval = config.update_interval
    /\ data = NoData
    /\ phase = "idle"
    /\ tanks_left = <<>>
    /\ tanks_data = <<>>
    /\ cycles = 0
    /\ last = NoCall
    /\ reported = EmptyDict
    /\ last_success_age = NEVER
    /\ outcome = "none"
    /\ thresholds = NoThresholds
    /\ store = NoDocument
    /\ cycle_error = "none"

InitClient ==
    /\ region \in Regions
    /\ EngineUnused
    /\ callers = {"A"}
    /\ authenticated = FALSE
    /\ auth_in_progress = FALSE
    /\ csrf_cookie = FALSE
    /\ waiting = {}
    /\ loc = [c \in Callers |-> IdleLocal]
    /\ ghost = [c \in Callers |-> NoGhost]
    /\ result = [c \in Callers |-> NoResult]
    /\ calls = 0

NextClient ==
    \/ \E c \in Callers : fetchTanks(c)
    \/ \E c \in Callers : ensureAuthenticated(c)
    \/ \E c \in Callers, resp \in ValidateResponses : ValidateResponse(c, resp)
    \/ \E c \in Callers, resp \in UsCsrfResponses : UsCsrfResponse(c, resp)
    \/ \E c \in Callers, resp \in UsLoginResponses : UsLoginResponse(c, resp)
    \/ \E c \in Callers, resp \in WarmupResponses : UsHomeResponse(c, resp)
    \/ \E c \in Callers, resp \in WarmupResponses : UsCustomersResponse(c, resp)
    \/ \E c \in Callers, resp \in UsTankResponses : UsTankResponse(c, resp)
    \/ \E c \in Callers, resp \in CaLoginPageResponses : CaLoginPageResponse(c, resp)
    \/ \E c \in Callers, resp \in CaCsrfPageResponses : CaCsrfPageResponse(c, resp)
    \/ \E c \in Callers, resp \in CaLoginResponses : CaLoginResponse(c, resp)
    \/ \E c \in Callers, resp \in JsonPages \cup CaPageFailures : CaPageResponse(c, resp)
    \/ \E c \in Callers : CaSleepEnds(c)

SpecClient == InitClient /\ [][NextClient]_vars

\* the outcomes of the orders POST: an OK answer, one that is not OK, none in
\* time, any other exception
CaOrdersResponses == {"ok", "status", "timeout", "exception"}

\* the CA client, its tank pages and its orders request
InitRetry == InitClient /\ region = "ca"

NextRetry ==
    \/ \E c \in Callers : fetchTanks(c)
    \/ \E c \in Callers : fetchOrders(c)
    \/ \E c \in Callers, resp \in CaLoginPageResponses : CaLoginPageResponse(c, resp)
    \/ \E c \in Callers, resp \in CaCsrfPageResponses : CaCsrfPageResponse(c, resp)
    \/ \E c \in Callers, resp \in CaLoginResponses : CaLoginResponse(c, resp)
    \/ \E c \in Callers, resp \in JsonPages \cup CaPageFailures : CaPageResponse(c, resp)
    \/ \E c \in Callers, resp \in CaOrdersResponses : CaOrdersResponse(c, resp)
    \/ \E c \in Callers : CaSleepEnds(c)

SpecRetry == InitRetry /\ [][NextRetry]_vars

\* every awaited request of a call ends (asyncio.timeout bounds each one) and
\* every sleep ends, so a call that can take a step takes one
SpecRetryFair == SpecRetry /\ WF_vars(NextRetry)

(***************************************************************************)
(* config_flow.py _test_credentials: the flow tests the credentials on a   *)
(* client of its own with async_test_connection.                           *)
(***************************************************************************)
NextTest ==
    \/ \E c \in Callers : testConnection(c)
    \/ \E c \in Callers, resp \in ValidateResponses : ValidateResponse(c, resp)
    \/ \E c \in Callers, resp \in UsCsrfResponses : UsCsrfResponse(c, resp)
    \/ \E c \in Callers, resp \in UsLoginResponses : UsLoginResponse(c, resp)
    \/ \E c \in Callers, resp \in WarmupResponses : UsHomeResponse(c, resp)
    \/ \E c \in Callers, resp \in WarmupResponses : UsCustomersResponse(c, resp)
    \/ \E c \in Callers, resp \in UsTankResponses : UsTankResponse(c, resp)
    \/ \E c \in Callers, resp \in CaLoginPageResponses : CaLoginPageResponse(c, resp)
    \/ \E c \in Callers, resp \in CaCsrfPageResponses : CaCsrfPageResponse(c, resp)
    \/ \E c \in Callers, resp \in CaLoginResponses : CaLoginResponse(c, resp)
    \/ \E c \in Callers, resp \in JsonPages \cup CaPageFailures : CaPageResponse(c, resp)
    \/ \E c \in Callers : CaSleepEnds(c)

SpecTest == InitClient /\ [][NextTest]_vars

(***************************************************************************)
(* Two tasks calling one client.  The interleavings are those of the       *)
(* awaits; the portal answers from the responses that tell the paths of    *)
(* the callers apart (a page either ends the pagination or fails).         *)
(***************************************************************************)
ConcurrentPages ==
    {p \in JsonPages : p.status /\ p.rows = 3 /\ p.bad = 0 /\ p.finished = "true"}
        \cup {p \in CaPageFailures : p.kind = "timeout"}

InitConcurrent ==
    /\ region \in Regions
    /\ EngineUnused
    /\ callers = {"A", "B"}
    /\ authenticated = FALSE
    /\ auth_in_progress = FALSE
    /\ csrf_cookie = FALSE
    /\ waiting = {}
    /\ loc = [c \in Callers |-> IdleLocal]
    /\ ghost = [c \in Callers |-> NoGhost]
    /\ result = [c \in Callers |-> NoResult]
    /\ calls = 0

NextConcurrent ==
    \/ \E c \in Callers : fetchTanks(c)
    \/ \E c \in Callers : ensureAuthenticated(c)
    \/ \E c \in Callers, resp \in ValidateResponses : ValidateResponse(c, resp)
    \/ \E c \in Callers, resp \in UsCsrfResponses : UsCsrfResponse(c, resp)
    \/ \E c \in Callers, resp \in UsLoginResponses : UsLoginResponse(c, resp)
    \/ \E c \in Callers, resp \in WarmupResponses : UsHomeResponse(c, resp)
    \/ \E c \in Callers, resp \in WarmupResponses : UsCustomersResponse(c, resp)
    \/ \E c \in Callers, resp \in UsTankResponses : UsTankResponse(c, resp)
    \/ \E c \in Callers, resp \in CaLoginPageResponses : CaLoginPageResponse(c, resp)
    \/ \E c \in Callers, resp \in CaCsrfPageResponses : CaCsrfPageResponse(c, resp)
    \/ \E c \in Callers, resp \in CaLoginResponses : CaLoginResponse(c, resp)
    \/ \E c \in Callers, resp \in ConcurrentPages : CaPageResponse(c, resp)
    \/ \E c \in Callers : CaSleepEnds(c)

SpecConcurrent == InitConcurrent /\ [][NextConcurrent]_vars

(***************************************************************************)
(* Properties of one processed reading (SpecReading) and of the poll       *)
(* cycles (SpecEngine).                                                    *)
(***************************************************************************)
EnergyOf(volume) == RMul(FromInt(volume), rc.volume_to_energy_factor)

StoredTotal(tank_id) == Get(consumption_totals, tank_id, FromInt(0))

\* the tank of the last processed reading keeps the stored total it had
TotalUntouched ==
    /\ StoredTotal(last.tank.tank_id) = last.total_before
    /\ (last.tank.tank_id \in DOMAIN consumption_totals) = last.has_total

\* the tank of the last processed reading keeps the previous volume it had
PreviousUntouched ==
    /\ (last.tank.tank_id \in DOMAIN previous_readings) = last.has_previous
    /\ Get(previous_readings, last.tank.tank_id, 0) = last.previous_before

\* C1: a reading that passed validation and has a previously recorded volume,
\* with delta = previous - current: if delta >= 0 the total after processing is
\* the total before plus delta x energy factor; if delta < 0 the total is
\* unchanged and refill_detected is set.
C1_DeltaAccounting ==
    (last.acted /\ last.valid /\ last.has_previous) =>
        LET delta == last.previous_before - last.tank.current_volume
        IN  /\ delta >= 0 =>
                /\ StoredTotal(last.tank.tank_id) = RAdd(last.total_before, EnergyOf(delta))
                /\ last.tank.consumption_total = RAdd(last.total_before, EnergyOf(delta))
            /\ delta < 0 =>
                /\ StoredTotal(last.tank.tank_id) = last.total_before
                /\ last.tank.consumption_total = last.total_before
                /\ last.tank.refill_detected

\* a positive delta was added to a total that already existed
C1_Witness ==
    /\ last.acted /\ last.valid /\ last.has_previous /\ last.has_total
    /\ last.previous_before - last.tank.current_volume = 10
    /\ RLess(last.total_before, StoredTotal(last.tank.tank_id))

\* C2: over the poll cycles (successful, failed, with refills and rejected
\* readings) no step lowers or removes a stored total, and no step lowers the
\* total last returned to the caller for a tank.
NeverLowered(dict, dict2) ==
    \A id \in DOMAIN dict : id \in DOMAIN dict2 /\ RLeq(dict[id], dict2[id])

C2_TotalsNeverDecrease ==
    [][/\ NeverLowered(consumption_totals, consumption_totals')
       /\ NeverLowered(reported, reported')]_vars

\* a total was accumulated and reported, and a later refill left it standing
C2_Witness ==
    /\ phase = "idle"
    /\ last.acted /\ last.tank.refill_detected
    /\ "t1" \in DOMAIN reported /\ RLess(FromInt(0), reported["t1"])
    /\ last.tank.tank_id = "t1"
    /\ reported["t1"] = StoredTotal("t1")

\* the level of a record is unparseable or outside [0, 100]
LevelOutsideRange(tank) == tank.level = UNKNOWN \/ tank.level < 0 \/ tank.level > 100

\* the tank size of a record is a number within the region's bounds
SizeWithinBounds(tank) ==
    /\ tank.tank_size # UNKNOWN
    /\ get_region_config(region).tank_size_min <= tank.tank_size
    /\ tank.tank_size <= get_region_config(region).tank_size_max

\* C3 as stated: a reading whose level is outside [0, 100] or unparseable is
\* flagged "Invalid Level" and leaves the total unchanged, whatever its other
\* fields are.
C3_AsStated ==
    (last.acted /\ LevelOutsideRange(last.tank)) =>
        /\ last.tank.data_quality = "Invalid Level"
        /\ TotalUntouched

\* C3 amended: a reading with a tank id and a tank size within the region's
\* bounds whose level is outside [0, 100] or unparseable is flagged
\* "Invalid Level" and leaves the total unchanged, whatever its volume is.
C3_InvalidLevel ==
    (/\ last.acted /\ last.tank.tank_id # ""
     /\ SizeWithinBounds(last.tank) /\ LevelOutsideRange(last.tank)) =>
        /\ last.tank.data_quality = "Invalid Level"
        /\ data_quality_flags[last.tank.tank_id] = "Invalid Level"
        /\ last.tank.consumption_total = last.total_before
        /\ TotalUntouched

\* a level of 150 on a tank that has a total, with an unparseable volume
C3_Witness ==
    /\ last.acted /\ last.tank.tank_id = "t1" /\ last.has_total
    /\ last.tank.tank_size = 100 /\ last.tank.level = 150
    /\ last.tank.current_volume = UNKNOWN
    /\ last.tank.data_quality = "Invalid Level"

\* the flag of the first check of the validation a record fails
FailingCheck(tank) ==
    IF ~SizeWithinBounds(tank) THEN "Invalid Tank Size"
    ELSE IF LevelOutsideRange(tank) THEN "Invalid Level"
    ELSE IF tank.current_volume = UNKNOWN THEN "Calculation Error"
    ELSE "Inconsistent Values"

\* C4: when validation of a reading fails, the reported total is the tank's
\* last stored total (0 if none), the rate is 0, the quality is the flag of
\* the failing check, and the previous volume and the stored total are as
\* before.
C4_AbortKeepsState ==
    (last.acted /\ last.tank.tank_id # "" /\ ~last.valid) =>
        /\ last.tank.derived
        /\ last.tank.consumption_total = last.total_before
        /\ last.tank.consumption_rate = FromInt(0)
        /\ last.tank.data_quality = FailingCheck(last.tank)
        /\ ~last.tank.refill_detected /\ ~last.tank.consumption_anomaly
        /\ PreviousUntouched
        /\ TotalUntouched

\* an inconsistent reading of a tank that has a previous volume and a total
C4_Witness ==
    /\ last.acted /\ ~last.valid /\ last.tank.tank_id = "t1"
    /\ last.has_previous /\ last.has_total
    /\ last.tank.data_quality = "Inconsistent Values"
    /\ last.tank.current_volume # last.previous_before

(***************************************************************************)
(* Properties of the session clients (SpecClient: one caller;              *)
(* SpecConcurrent: two).                                                   *)
(***************************************************************************)
\* the tank data request of a caller is in flight
TankRequestInFlight(c) == loc[c].pc \in {"tank", "page"}

\* a caller is inside an authentication sequence: the CSRF fetch, the login
\* POST and what follows it, or a pause between the attempts of either
InAuthentication(c) ==
    \/ loc[c].pc \in {"csrf", "login", "home", "customers", "loginpage", "loginsleep"}
    \/ loc[c].pc \in {"csrfpage", "csrfsleep"} /\ loc[c].stage = "auth"

\* C5 as stated, for the client of either region: a call whose first attempt
\* ended with an authentication error has made a second attempt, and no call
\* issues the tank data request more than twice.
C5_AsStated ==
    \A c \in Callers :
        /\ ghost[c].tank_requests <= 2
        /\ ghost[c].first_error = "auth" => ghost[c].second_attempt

\* C5 amended: in one fetchTanks call of the US client, the first attempt
\* ending with an authentication error (and nothing else) clears the
\* authenticated flag and starts a second attempt, which with a single caller
\* re-authenticates before it repeats the tank data request; the request is
\* issued at most twice, and the second attempt's tank data request ends the
\* call, by its tanks or by its error.
C5_RetryOnce ==
    /\ [](region = "us" =>
            \A c \in Callers :
                /\ ghost[c].tank_requests <= 2
                /\ ghost[c].second_attempt <=> ghost[c].first_error = "auth"
                /\ loc[c].retry <=> (ghost[c].second_attempt /\ loc[c].pc # "idle")
                /\ (callers = {c} /\ loc[c].retry /\ loc[c].pc = "tank")
                       => ghost[c].auth_done)
    /\ [][region = "us" =>
            \A c \in Callers :
                /\ (~ghost[c].second_attempt /\ ghost'[c].second_attempt)
                       => /\ ~authenticated'
                          /\ loc[c].op = "fetchTanks"
                          /\ loc'[c].pc \in {"csrf", "tank"}
                          /\ callers = {c} => loc'[c].pc = "csrf"
                /\ (loc[c].retry /\ loc[c].pc = "tank" /\ loc'[c] # loc[c])
                       => /\ loc'[c].pc = "idle"
                          /\ result'[c].outcome \in {"returned", "raised"}]_vars

\* the second attempt of a US call failed as the first did, and its error
\* reached the caller after two tank data requests
C5_Witness ==
    /\ region = "us"
    /\ ghost["A"].second_attempt /\ ghost["A"].auth_done
    /\ ghost["A"].tank_requests = 2
    /\ result["A"].outcome = "raised" /\ result["A"].error = "auth"

\* C6: in any interleaving of two callers, at most one of them is inside an
\* authentication sequence, and the in-progress flag is up exactly then.
C6_OneAuthentication ==
    /\ \A c, d \in Callers : (InAuthentication(c) /\ InAuthentication(d)) => c = d
    /\ auth_in_progress <=> \E c \in Callers : InAuthentication(c)

\* one caller is at the login POST while the other, who found the flag up,
\* is in its call
C6_Witness ==
    /\ loc["A"].pc = "login"
    /\ "B" \in waiting
    /\ loc["B"].pc # "idle"

\* C7: a caller that found the session unauthenticated and an authentication
\* in flight starts none of its own and has no tank data request in flight
\* before that authentication has ended.
C7_WaitsForAuthentication ==
    \A c \in waiting : ~InAuthentication(c) /\ ~TankRequestInFlight(c)

\* C8: with a single caller, a failing validation request does not end the
\* call with an error: the step marks the session unauthenticated and starts
\* the authentication sequence, and the tank data request that follows it is
\* issued only after that sequence has completed.
C8_RevalidationReauthenticates ==
    /\ [](callers = {"A"} =>
            ((ghost["A"].validation_failed /\ TankRequestInFlight("A"))
                 => ghost["A"].auth_done))
    /\ [][(callers = {"A"} /\ ~ghost["A"].validation_failed
              /\ ghost'["A"].validation_failed)
             => /\ ~authenticated'
                /\ auth_in_progress'
                /\ result'["A"].outcome = "pending"
                /\ loc'["A"].pc = IF region = "us" THEN "csrf" ELSE "loginpage"]_vars

\* the tank data request of a call whose validation request failed
C8_Witness ==
    /\ callers = {"A"}
    /\ ghost["A"].validation_failed /\ ghost["A"].auth_done
    /\ loc["A"].pc = "tank"
    /\ ~loc["A"].retry

\* the tanks of the decoded pages of a fetch, in the order received
RECURSIVE Collected(_)
Collected(pages) ==
    IF pages = <<>> THEN <<>>
    ELSE Collected(SubSeq(pages, 1, Len(pages) - 1))
             \o PageTanks(pages[Len(pages)].offset, pages[Len(pages)].rows,
                          pages[Len(pages)].bad)

\* the stop conditions of the pagination as the claim lists them
StopsAsStated(pages, i) ==
    \/ pages[i].finished = "true"
    \/ pages[i].rows - pages[i].bad < 10
    \/ pages[i].rows = 0
    \/ ~pages[i].status /\ pages[i].rows = 0
           /\ Collected(SubSeq(pages, 1, i - 1)) # <<>>

\* the stop conditions with the page that says nothing about "finished"
StopsOrSilent(pages, i) ==
    StopsAsStated(pages, i) \/ pages[i].finished = "absent"

\* the pages of every fetch are requested at 0, 10, 20, ..., no page is
\* requested after one that stops the pagination, a fetch that no failure
\* ended returns after a page that stops it, and what it returns is the
\* concatenation of its pages
Pagination(Stops(_, _)) ==
    \A c \in Callers :
        LET pages == ghost[c].pages
            requested == ghost[c].requested
        IN  /\ \A i \in 1..Len(pages) : pages[i].offset = (i - 1) * 10
            /\ \A i \in 1..Len(requested) : requested[i] = (i - 1) * 10
            /\ Len(pages) <= Len(requested) /\ Len(requested) <= Len(pages) + 1
            /\ \A i \in 1..(Len(pages) - 1) : ~Stops(pages, i)
            /\ loc[c].pc = "page" =>
                   /\ Len(requested) = Len(pages) + 1
                   /\ loc[c].tanks_data = Collected(pages)
            /\ (pages # <<>> /\ Stops(pages, Len(pages))) =>
                   /\ loc[c].pc = "idle"
                   /\ result[c].outcome = "returned"
                   /\ result[c].tanks = Collected(pages)
            /\ (pages # <<>> /\ result[c].outcome = "returned"
                    /\ ghost[c].last_failure = "none") =>
                   Stops(pages, Len(pages))

\* C9 as stated: the pagination stops after the first page that is finished,
\* short, empty, or failed-and-empty after a tank was collected.
C9_AsStated == Pagination(StopsAsStated)

\* C9 amended: the pagination requests the offsets 0, 10, 20, ... and stops
\* after the first page that is finished, says nothing about "finished", has
\* fewer than 10 tanks, is empty, or is failed-and-empty after a tank was
\* collected; the result is the concatenation of the pages received.
C9_Pagination == Pagination(StopsOrSilent)

\* a page of 10 rows that is not finished, then a page of 3: two requests,
\* 13 tanks
C9_Witness ==
    /\ Len(ghost["A"].pages) = 2
    /\ ghost["A"].pages[1].rows = 10 /\ ghost["A"].pages[1].bad = 0
    /\ ghost["A"].pages[1].finished = "false"
    /\ ghost["A"].pages[2].rows = 3 /\ ghost["A"].pages[2].bad = 0
    /\ ghost["A"].pages[2].finished = "false"
    /\ ghost["A"].requested = <<0, 10>>
    /\ ghost["A"].tank_requests = 2
    /\ result["A"].outcome = "returned"
    /\ Len(result["A"].tanks) = 13

\* C10: a fetch that a timeout, a communication error or a JSON error on the
\* last attempt of a page ended returns exactly the tanks of the earlier
\* pages if there are any, and raises if there are none.
C10_PartialResults ==
    \A c \in Callers :
        ghost[c].last_failure \in {"json", "timeout", "comm"} =>
            IF Collected(ghost[c].pages) # <<>>
            THEN /\ result[c].outcome = "returned"
                 /\ result[c].tanks = Collected(ghost[c].pages)
            ELSE /\ result[c].outcome = "raised"
                 /\ result[c].error \in {"client", "comm"}

\* the second page failed to decode on its last attempt and the ten tanks of
\* the first page were returned
C10_Witness ==
    /\ ghost["A"].last_failure = "json"
    /\ Len(ghost["A"].pages) = 1
    /\ ghost["A"].requested = <<0, 10>>
    /\ result["A"].outcome = "returned"
    /\ Len(result["A"].tanks) = 10

(***************************************************************************)
(* Properties of the failing poll cycles (SpecEngine).                     *)
(***************************************************************************)
\* a cycle has just ended (no cycle is under way) with this outcome
CycleEnded(how) == phase = "idle" /\ outcome = how

\* a snapshot exists and the last update that succeeded is less than four
\* hours (14400 s) old
SnapshotWithinFourHours ==
    data.set /\ last_success_age # NEVER /\ last_success_age < 14400

\* C11: a cycle failing with a communication error returns the previous
\* snapshot iff one exists and the last successful update is less than 4 hours
\* old, and is reported as failed otherwise; the fallback does not refresh the
\* time of the last success.
C11_StaleFallback ==
    /\ [](CycleEnded("stale") => SnapshotWithinFourHours)
    /\ [](CycleEnded("communication_error") => ~SnapshotWithinFourHours)
    /\ [][outcome' = "stale" /\ cycles' # cycles =>
            /\ last_success_age # NEVER
            /\ last_success_age' >= last_success_age + update_interval
                   \/ last_success_age' = 14400
            /\ data' = data]_vars

\* a communication error four hours after the only successful update: the
\* snapshot exists and the cycle fails
C11_Witness ==
    /\ CycleEnded("communication_error")
    /\ data.set /\ data.tanks # <<>>
    /\ last_success_age = 14400

\* the age of the last success once another update_interval has passed
AgedByInterval ==
    IF last_success_age = NEVER THEN NEVER
    ELSE IF last_success_age + update_interval < 14400
         THEN last_success_age + update_interval ELSE 14400

\* C12: a cycle failing with an authentication error is reported as an
\* authentication failure and changes neither the poll interval, nor the time
\* of the last success (its age only grows by the time passed), nor the
\* previous readings, nor the totals; no snapshot is returned in its place.
C12_AuthFailureFrame ==
    [][(cycles' # cycles /\ outcome' = "auth_failed") =>
          /\ update_interval' = update_interval
          /\ last_success_age' = AgedByInterval
          /\ previous_readings' = previous_readings
          /\ consumption_totals' = consumption_totals
          /\ reported' = reported
          /\ data' = data
          /\ phase' = "idle"]_vars

\* an authentication failure while a fresh snapshot and previous readings
\* exist and an earlier failure has shortened the poll interval
C12_Witness ==
    /\ CycleEnded("auth_failed")
    /\ SnapshotWithinFourHours
    /\ update_interval = rc.retry_interval
    /\ previous_readings # EmptyDict

\* the bound computed from the tank: size x share of capacity per hour x hours
Computed(share) == RMul(RMul(FromInt(thresholds.tank_size), share), thresholds.hours)

LowComputed == RMax(rc.absolute_min_consumption, Computed(Rat(1, 10000)))

HighComputed == RMin(rc.absolute_max_consumption, Computed(Rat(5, 100)))

BothOverridden == config.min_consumption_threshold.set /\ config.max_consumption_threshold.set

NoneOverridden == ~config.min_consumption_threshold.set /\ ~config.max_consumption_threshold.set

C14_MinBelowMax == thresholds.set => RLeq(thresholds.min, thresholds.max)

\* the JSON object holds exactly the entries of the dict
Holds(object, dict) ==
    /\ \A k \in DOMAIN dict : <<k, dict[k]>> \in object
    /\ \A m \in object : m[1] \in DOMAIN dict /\ dict[m[1]] = m[2]

StoreHolds(totals, previous) ==
    /\ store.saved
    /\ Holds(store.consumption_totals, totals)
    /\ Holds(store.previous_readings, previous)

\* C15: persistence round-trips.  A save writes a document that holds the
\* totals and previous readings of that moment; a load of a saved document
\* leaves the coordinator with exactly the totals and previous readings the
\* document holds; and a save of just loaded, unchanged dicts leaves the
\* document as it is, so that the next load yields the same again.
C15_PersistenceRoundTrip ==
    /\ []((phase = "idle" /\ outcome = "loaded" /\ store.saved) =>
             StoreHolds(consumption_totals, previous_readings))
    /\ [][(phase = "processing" /\ phase' = "idle" /\ store' # store) =>
             /\ store'.saved
             /\ Holds(store'.consumption_totals, consumption_totals)
             /\ Holds(store'.previous_readings, previous_readings)]_vars
    /\ [][(/\ phase = "processing" /\ phase' = "idle"
           /\ StoreHolds(consumption_totals, previous_readings)) =>
             store' = store]_vars

\* a restart that loads a document with a total and a previous reading
C15_Witness ==
    /\ phase = "idle" /\ outcome = "loaded"
    /\ store.saved
    /\ consumption_totals # EmptyDict
    /\ previous_readings # EmptyDict

\* how the async_get_tanks_data inside a finished connection test ended
TestEnded(c, how) ==
    /\ loc[c].pc = "idle"
    /\ result[c].outcome \in {"true", "false", "raised"}
    /\ ghost[c].inner \in how

\* C16: the connection test answers true exactly when async_get_tanks_data
\* returned at least one tank; when it returned none, or raised an
\* authentication, communication or base client error, the test answers
\* false and raises nothing.
C16_TestConnection ==
    \A c \in Callers :
        /\ result[c].outcome = "true" <=> TestEnded(c, {"tanks"})
        /\ TestEnded(c, {"empty", "auth", "comm", "client"}) =>
               result[c].outcome = "false" /\ result[c].error = "none"

\* a test that answered false on a communication error
C16_Witness ==
    \E c \in Callers :
        /\ TestEnded(c, {"comm"})
        /\ result[c].outcome = "false"

\* the record carries consumption_total, consumption_rate, data_quality,
\* refill_detected and consumption_anomaly
CarriesDerivedFields(tank) == tank.derived /\ tank.data_quality # "absent"

FetchReturned(c) ==
    /\ loc[c].pc = "idle"
    /\ result[c].outcome = "returned"
    /\ ghost[c].tank_requests > 0

\* C18: async_get_tanks_data never returns an empty list as a success: with
\* zero tanks overall it raises the base client error, which is neither the
\* authentication nor the communication error.
C18_NeverEmptySuccess ==
    \A c \in Callers : FetchReturned(c) => result[c].tanks # <<>>

\* C19: an authentication error is never retried inline: once a login POST
\* has been answered with a redirect back to the login page, the caller
\* neither waits to post the login again nor posts it again within that
\* authentication attempt.
C19_NoInlineLoginRetry ==
    \A c \in Callers :
        ghost[c].rejected => loc[c].pc \notin {"loginsleep", "login"}

\* the step in which caller c receives the login page (by redirect, or a
\* body with the login form) in answer to a tank data request
LoginPageAnswers(c) == ghost'[c].login_answers > ghost[c].login_answers

\* C20: for every region client, a tank data request answered with the login
\* page ends the session: authenticated becomes false, the authentication
\* error is raised and the call returns no tank record from that response.
C20_SessionExpired ==
    [][\A c \in Callers :
          LoginPageAnswers(c) =>
              /\ ~authenticated'
              /\ ghost'[c].first_error = "auth"
              /\ result'[c].outcome # "returned"]_vars

\* the last call was on a reading that passed validation
ValidatedReading == last.acted /\ last.valid

\* the difference previous - current of the last call (0 without a previous)
Delta == IF last.has_previous THEN last.previous_before - last.tank.current_volume ELSE 0

\* C21: after every reading that passes validation the stored previous volume
\* of its tank is the current volume of the reading, whether the reading is
\* the first of the tank, a refill, no change or a consumption; a first
\* reading computes no delta: it reports the total 0, no refill, no anomaly,
\* and stores no total.
C21_PreviousRecorded ==
    ValidatedReading =>
        /\ last.tank.tank_id \in DOMAIN previous_readings
        /\ previous_readings[last.tank.tank_id] = last.tank.current_volume
        /\ ~last.has_previous =>
               /\ last.tank.consumption_total = FromInt(0)
               /\ ~last.tank.refill_detected
               /\ ~last.tank.consumption_anomaly
               /\ last.tank.tank_id \notin DOMAIN consumption_totals

\* a refill: the previous volume was lower and is replaced
C21_Witness ==
    /\ ValidatedReading
    /\ last.has_previous /\ Delta < 0
    /\ last.tank.refill_detected
    /\ previous_readings[last.tank.tank_id] = last.tank.current_volume

\* the thresholds resolved for the tank of the last call
Resolved == calculate_dynamic_thresholds(last.tank.tank_size, update_interval_hours)

\* C22: for every validated reading with a previous reading and a positive
\* delta, and for every resolved pair of thresholds, consumption_anomaly is
\* set exactly when the delta exceeds the upper threshold, and the energy of
\* the delta is added to the total in every case.
C22_AnomalyAboveMax ==
    (ValidatedReading /\ last.has_previous /\ Delta > 0) =>
        /\ last.tank.consumption_anomaly <=> RLess(Resolved.max, FromInt(Delta))
        /\ last.tank.consumption_total =
               RAdd(last.total_before, RMul(FromInt(Delta), rc.volume_to_energy_factor))

\* r is x rounded to 4 decimals: a multiple of 1/10000 at most half of
\* 1/10000 away from x
IsRounded4(r, x) ==
    /\ 10000 % r.d = 0
    /\ RLeq(RAbs(RSub(r, x)), Rat(1, 20000))

\* energy of the delta per hour of the interval in force
EnergyPerHour ==
    RDiv(RMul(FromInt(Delta), rc.volume_to_energy_factor),
         Rat(update_interval, SECONDS_PER_HOUR))

\* C23: the consumption rate of a record is delta x energy factor / interval
\* hours, rounded to 4 decimals, when the reading passed validation, has a
\* previous reading and a positive delta; it is 0 when validation failed,
\* when there is no previous reading and when the delta is not positive.
C23_ConsumptionRate ==
    (last.acted /\ last.tank.derived) =>
        IF ValidatedReading /\ last.has_previous /\ Delta > 0
        THEN IsRounded4(last.tank.consumption_rate, EnergyPerHour)
        ELSE last.tank.consumption_rate = FromInt(0)

\* a rate that needed rounding, over an interval other than one hour
C23_Witness ==
    /\ ValidatedReading /\ last.has_previous /\ Delta > 0
    /\ update_interval # SECONDS_PER_HOUR
    /\ last.tank.consumption_rate # EnergyPerHour
    /\ IsRounded4(last.tank.consumption_rate, EnergyPerHour)

\* 100 x the expected volume of a record: level x tank size
Expected100(tank) == tank.level * tank.tank_size

\* 100 x the distance of the current volume from the expected volume
Deviation100(tank) == Abs(100 * tank.current_volume - Expected100(tank))

\* the current volume is within 10% of the expected volume, or that is 0
WithinTolerance(tank) ==
    Expected100(tank) = 0 \/ 10 * Deviation100(tank) <= Expected100(tank)

\* C24: for a record with a valid tank size and a valid level, validation
\* passes exactly when the expected volume level x size / 100 is 0 or the
\* current volume is at most 10% of the expected volume away from it; a
\* larger deviation is flagged "Inconsistent Values", an unparseable current
\* volume "Calculation Error", and in both cases the previous volume and the
\* total stay as they were.
C24_VolumeCrossCheck ==
    (/\ last.acted /\ last.tank.tank_id # ""
     /\ SizeWithinBounds(last.tank) /\ ~LevelOutsideRange(last.tank)) =>
        IF last.tank.current_volume = UNKNOWN
        THEN /\ ~last.valid
             /\ last.tank.data_quality = "Calculation Error"
             /\ PreviousUntouched /\ TotalUntouched
        ELSE /\ last.valid <=> WithinTolerance(last.tank)
             /\ ~last.valid =>
                    /\ last.tank.data_quality = "Inconsistent Values"
                    /\ PreviousUntouched /\ TotalUntouched

\* a reading exactly 10% off its expected volume passes
C24_Witness ==
    /\ ValidatedReading
    /\ Expected100(last.tank) > 0
    /\ 10 * Deviation100(last.tank) = Expected100(last.tank)

\* the authentication attempt of caller c has ended after a login POST that
\* was answered
AttemptEnded(c) ==
    /\ ghost[c].auth_result # "none"
    /\ ghost[c].login_post \notin {"none", "timeout", "exception"}

\* the answer to the login POST had an OK status and was not on a login URL
OkNotLogin(c) == ghost[c].login_post \in {"ok", "dashboard", "unexpected"}

\* the attempt ended with an authentication error, the session not
\* authenticated
EndedUnauthenticated(c) ==
    ghost[c].auth_result = "auth" /\ ~authenticated

\* C25 as stated: an authentication attempt succeeds exactly when the answer
\* to the login POST has an OK status and is not on the login URL; any other
\* answer ends it with an authentication error and authenticated = false.
C25_AsStated ==
    \A c \in Callers :
        AttemptEnded(c) =>
            /\ ghost[c].auth_result = "done" <=> OkNotLogin(c)
            /\ ~OkNotLogin(c) => EndedUnauthenticated(c)

\* the client accepted the answer to the login POST: the US client an OK
\* answer that is not on a login URL, the CA client an answer on the dashboard
Accepted(c) ==
    IF region = "us" THEN ghost[c].login_post = "ok"
    ELSE ghost[c].login_post \in {"dashboard", "dashboard_error"}

\* C25: an authentication attempt succeeds only after a login POST the
\* client accepted (US: OK status, not on a login URL; CA: on the dashboard,
\* whatever the status); the CA attempt then always succeeds, the US attempt
\* unless a warm-up request fails, which is no authentication error; any
\* other answer to the last login POST of the attempt ends it with an
\* authentication error and authenticated = false.
C25_LoginOutcome ==
    \A c \in Callers :
        AttemptEnded(c) =>
            /\ ghost[c].auth_result = "done" => Accepted(c)
            /\ (Accepted(c) /\ region = "ca") => ghost[c].auth_result = "done"
            /\ (Accepted(c) /\ region = "us") =>
                   ghost[c].auth_result \in {"done", "comm", "other"}
            /\ ~Accepted(c) => EndedUnauthenticated(c)

\* the CA login POST was answered with OK on a page that is neither the
\* dashboard nor the login page, and the attempt ended
C25_Witness ==
    \E c \in Callers :
        /\ AttemptEnded(c)
        /\ ghost[c].login_post = "unexpected"
        /\ EndedUnauthenticated(c)

\* C26: when the login page came with an OK status but gave no CSRF token
\* (US: the hidden field absent or empty; CA: the cookie still absent after
\* the allowed retries), the authentication attempt ends with an
\* authentication error and authenticated = false.
C26_NoCsrfToken ==
    \A c \in Callers :
        ghost[c].no_token =>
            ghost[c].auth_result = "auth" /\ ~authenticated

\* the retry settings of the region
maxApiRetries == get_region_config(region).max_api_retries

retryDelay == get_region_config(region).retry_delay_seconds

\* C27: a tank page request and the orders request are each posted at most
\* maxApiRetries times; the k-th wait of a request follows the failure of its
\* attempt k < maxApiRetries and lasts retryDelay + 10 x k, longer than the
\* wait before it; attempt k+1 comes only after the k-th wait; and a failure
\* on attempt maxApiRetries is followed by no wait and no attempt: the call
\* has ended.
C27_BoundedRetries ==
    \A c \in Callers :
        LET g == ghost[c]
        IN  /\ g.attempts <= maxApiRetries
            /\ g.attempts <= Len(g.waits) + 1
            /\ Len(g.waits) < maxApiRetries
            /\ \A k \in 1..Len(g.waits) :
                   /\ g.waits[k] = retryDelay + 10 * k
                   /\ k > 1 => g.waits[k] > g.waits[k - 1]
            /\ loc[c].pc \in {"page", "orders", "pagesleep"} =>
                   loc[c].page_attempt = Len(g.waits) + (IF loc[c].pc = "pagesleep" THEN 0 ELSE 1)
            /\ g.last_failure # "none" =>
                   /\ loc[c].pc = "idle"
                   /\ Len(g.waits) = maxApiRetries - 1

\* the orders request and a tank page have each used up their attempts
\* after the longest wait
C27_Witness ==
    \E c \in Callers :
        /\ ghost[c].last_failure # "none"
        /\ ghost[c].attempts = maxApiRetries
        /\ Len(ghost[c].waits) = maxApiRetries - 1
        /\ ghost[c].waits[maxApiRetries - 1] = retryDelay + 10 * (maxApiRetries - 1)

\* C28: the poll cycle that ends sets the poll interval by its outcome: the
\* configured interval after a success, the retry interval after a
\* communication error that does not mention maintenance, one hour after one
\* that does (the stale snapshot returned or not), the retry interval after
\* any other client error that is no authentication error; so a success
\* restores the configured interval whatever the failures before it.
C28_IntervalByOutcome ==
    [][cycles' # cycles =>
          /\ cycle_error' = "none" => update_interval' = config.update_interval
          /\ cycle_error' = "comm" =>
                 update_interval' = get_region_config(region).retry_interval
          /\ cycle_error' = "maintenance" => update_interval' = 3600
          /\ cycle_error' = "client" =>
                 update_interval' = get_region_config(region).retry_interval
          /\ cycle_error' \in {"comm", "maintenance"} <=>
                 outcome' \in {"stale", "communication_error"}]_vars

\* a maintenance error answered with the stale snapshot: the interval is one
\* hour, neither the configured interval nor the retry interval
C28_Witness ==
    /\ outcome = "stale" /\ cycle_error = "maintenance"
    /\ cycles > 1
    /\ update_interval = 3600
    /\ config.update_interval # 3600

\* the call of fetchTanks by c raised after a request for the login page,
\* the login POST or a tank data request that timed out or was answered with
\* a status that is not OK
RaisedOnNetworkFailure(c) ==
    /\ loc[c].pc = "idle"
    /\ result[c].outcome = "raised"
    /\ ghost[c].net \in {"timeout", "status"}

\* C29: a timeout or a status that is not OK on the login page request, the
\* login POST or the tank data request of fetchTanks reaches the caller of
\* fetchTanks as a communication error.
C29_NetworkFailureIsCommunicationError ==
    \A c \in Callers :
        RaisedOnNetworkFailure(c) => result[c].error = "comm"

\* the records of a batch on which the processing raised read "Unknown"
ReadUnknown(batch) ==
    \A i \in DOMAIN batch : batch[i].raised => native_value(batch[i]) = "Unknown"

C31_SaveFailureNotFatal ==
    [][(/\ phase = "processing" /\ phase' = "idle"
        /\ ~StoreHolds(consumption_totals, previous_readings)') =>
           /\ outcome' = "updated"
           /\ data' = [set |-> TRUE, tanks |-> tanks_data]
           /\ update_interval' = config.update_interval
           /\ last_success_age' = 0
           /\ previous_readings' = previous_readings
           /\ consumption_totals' = consumption_totals]_vars

\* a successful cycle that recorded a reading which the document on disk,
\* never written, does not hold
C31_Witness ==
    /\ phase = "idle" /\ outcome = "updated"
    /\ previous_readings # EmptyDict
    /\ ~store.saved
    /\ data.set /\ data.tanks # <<>>
    /\ last_success_age = 0

\* the authentication sequence of caller c ended in failure
SequenceFailed(c) == ghost[c].auth_result \notin {"none", "done"}

\* C32: the in-progress flag is up exactly while a caller is inside an
\* authentication sequence, so it is down again once the sequence has ended,
\* however it ended; authenticated turns true only in the step that ends a
\* sequence whose login POST the client accepted (in the US client the step
\* that completes the second warm-up request); and after a sequence that
\* failed the session is not authenticated.
C32_AuthenticationFlags ==
    /\ [](auth_in_progress <=> \E c \in Callers : InAuthentication(c))
    /\ [](\A c \in Callers :
              SequenceFailed(c) => ~authenticated /\ ~auth_in_progress)
    /\ [][(~authenticated /\ authenticated') =>
             \E c \in Callers :
                 /\ InAuthentication(c)
                 /\ ghost'[c].auth_result = "done"
                 /\ ghost'[c].login_post \in {"ok", "dashboard", "dashboard_error"}
                 /\ loc[c].pc = IF region = "us" THEN "customers" ELSE "login"
                 /\ ~auth_in_progress']_vars

\* a US sequence whose login POST was accepted and whose warm-up request
\* timed out: the flag is down and the session is not authenticated
C32_Witness ==
    \E c \in Callers :
        /\ region = "us"
        /\ ghost[c].login_post = "ok"
        /\ ghost[c].auth_result = "comm"
        /\ ~authenticated /\ ~auth_in_progress
        /\ loc[c].pc = "idle"

\* the call of caller c has started an authentication sequence since its
\* validation request, if any
SequenceStarted(c) == InAuthentication(c) \/ ghost[c].auth_result # "none"

\* C33 as stated: a call whose validation request succeeded issues no CSRF
\* fetch and no login POST.
C33_AsStated ==
    \A c \in Callers : ghost[c].validated => ~SequenceStarted(c)

\* C33: a sequence starts only with the session unauthenticated; a call whose
\* validation request succeeded goes to its tank data request without a
\* sequence, and starts one later only in the US client, for the one retry
\* after the tank page answered with the login page; the CA fetchTanks never
\* validates, it authenticates in every call.
C33_SequenceFromUnauthenticated ==
    /\ [][\A c \in Callers :
              (~InAuthentication(c) /\ InAuthentication(c)') =>
                  ~authenticated' /\ auth_in_progress']_vars
    /\ [](\A c \in Callers :
              (ghost[c].validated /\ SequenceStarted(c)) =>
                  /\ region = "us"
                  /\ ghost[c].second_attempt
                  /\ ghost[c].first_error = "auth"
                  /\ ghost[c].tank_requests >= 1)
    /\ [](\A c \in Callers :
              (region = "ca" /\ loc[c].op = "fetchTanks") => ~ghost[c].validated)

\* the tank data request of a call that validated its session and started
\* no sequence
C33_Witness ==
    \E c \in Callers :
        /\ ghost[c].validated
        /\ loc[c].op = "fetchTanks" /\ loc[c].pc = "tank"
        /\ ~SequenceStarted(c)
        /\ ghost[c].tank_requests = 1

\* the entry of tank id t in a dict is the same before and after the step
SameEntry(dict, dict2, t) ==
    /\ (t \in DOMAIN dict) = (t \in DOMAIN dict2)
    /\ t \in DOMAIN dict => dict2[t] = dict[t]

\* the step is the loop body run on a record of tank id t
Processes(t) == phase = "processing" /\ tanks_left # <<>> /\ Head(tanks_left) = t

\* C34: per-tank state is isolated and never pruned.  The previous volume,
\* the stored total and the quality flag of a tank id change only in the
\* loop body run on a record of that id, so a tank absent from the fetched
\* batch keeps its state through the cycle; and no step removes an entry
\* from previousReadings or consumptionTotals.
C34_TankIsolation ==
    [][/\ \A t \in TankIds :
              \/ Processes(t)
              \/ /\ SameEntry(previous_readings, previous_readings', t)
                 /\ SameEntry(consumption_totals, consumption_totals', t)
                 /\ SameEntry(data_quality_flags, data_quality_flags', t)
       /\ DOMAIN previous_readings \subseteq DOMAIN previous_readings'
       /\ DOMAIN consumption_totals \subseteq DOMAIN consumption_totals']_vars

\* a batch of tank t1 alone has been processed and changed the previous
\* volume and the total of t1, while t2 has a previous volume and a total
C34_Witness ==
    /\ phase = "processing" /\ tanks_left = <<>> /\ Len(tanks_data) = 1
    /\ last.acted /\ last.valid /\ last.tank.tank_id = "t1"
    /\ last.has_previous /\ previous_readings["t1"] # last.previous_before
    /\ last.has_total /\ consumption_totals["t1"] # last.total_before
    /\ "t2" \in DOMAIN previous_readings
    /\ "t2" \in DOMAIN consumption_totals

\* C35: every reading that passes validation is reported with data quality
\* Good, whatever flag its tank id carried before, and a reported quality
\* other than Good means that the reading at hand failed validation.
C35_ValidIsGood ==
    (last.acted /\ last.tank.derived) =>
        (last.valid <=> last.tank.data_quality = "Good")

\* the sum of the positive drops between consecutive readings
RECURSIVE SumDrops(_)
SumDrops(readings) ==
    IF Len(readings) < 2 THEN 0
    ELSE (IF readings[1] > readings[2] THEN readings[1] - readings[2] ELSE 0)
             + SumDrops(Tail(readings))

\* C36: over any sequence of poll cycles (successful, failed, with rejected
\* readings, failed saves and restarts) the total of a tank equals its
\* loaded total plus energyFactor x the sum of the positive drops between
\* consecutive readings that passed validation since the load.
C36_TotalIsSumOfDrops ==
    last.history.on =>
        \A t \in {"t1", "t2"} :
            StoredTotal(t) =
                RAdd(Get(last.history.base, t, FromInt(0)),
                     EnergyOf(SumDrops(Get(last.history.readings, t, <<>>))))

\* the loaded reading 55 was followed by the accepted readings 50 and 45,
\* with a failed cycle between them, on top of a loaded total
C36_Witness ==
    /\ last.history.on
    /\ phase = "processing" /\ cycles = 2 /\ cycle_error = "comm"
    /\ "t1" \in DOMAIN last.history.readings
    /\ last.history.readings["t1"] = <<55, 50, 45>>
    /\ "t1" \in DOMAIN last.history.base
    /\ RLess(FromInt(0), last.history.base["t1"])
    /\ last.acted /\ last.valid

\* the step ends a poll cycle with an error of a fetch
CycleFailed == cycles' = cycles + 1 /\ cycle_error' # "none"

\* C37: a poll cycle in which fetchTanks or fetchOrders raises processes no
\* tank.  The failing step, and every step between the two fetches, leaves
\* previousReadings, consumptionTotals, the quality flags and the stored
\* document as they are; and between the cycles of runs whose saves succeed
\* the dicts in memory are those of the last saved document (empty before
\* the first save), so a failed cycle has changed nothing before it failed.
C37_FailedCycleTouchesNothing ==
    /\ [][(CycleFailed \/ phase = "fetched") =>
              UNCHANGED <<previous_readings, consumption_totals,
                          data_quality_flags, store>>]_vars
    /\ [](phase \in {"idle", "fetched"} =>
              IF store.saved
              THEN StoreHolds(consumption_totals, previous_readings)
              ELSE previous_readings = EmptyDict /\ consumption_totals = EmptyDict)

\* fetchOrders raised after fetchTanks had returned both tanks, in a cycle
\* that follows a saved one
C37_Witness ==
    /\ phase = "idle" /\ tanks_left = <<"t1", "t2">>
    /\ cycle_error = "comm" /\ cycles = 2
    /\ store.saved /\ "t1" \in DOMAIN previous_readings

\* C38: for the entry the setup flow creates with adaptive thresholds on and
\* the threshold fields left at their defaults, the thresholds of a call are
\* the adaptive ones, computed from tank size and poll interval.
C38_SetupEntryIsAdaptive ==
    (thresholds.set /\ config = async_step_credentials(region, DefaultInput)) =>
        /\ thresholds.min = LowComputed
        /\ thresholds.max = HighComputed

\* the last record was processed in the running cycle, passed validation
\* and showed a drop against the previous reading
DropInCycle ==
    /\ phase = "processing" /\ tanks_data # <<>>
    /\ last.acted /\ last.valid /\ last.has_previous
    /\ last.previous_before > last.tank.current_volume

HoursOf(seconds) == RMax(Rat(1, 1000), Rat(seconds, SECONDS_PER_HOUR))

\* the rate and the anomaly flag of the last record, had the cycle used the
\* hours of an interval of `seconds` (adaptive thresholds, no overrides)
RateAt(seconds) ==
    Round4(RDiv(EnergyOf(last.previous_before - last.tank.current_volume),
                HoursOf(seconds)))

AnomalyAt(seconds) ==
    LET drop == FromInt(last.previous_before - last.tank.current_volume)
        share(p) == RMul(RMul(FromInt(last.tank.tank_size), p), HoursOf(seconds))
        low == RMax(rc.absolute_min_consumption, share(Rat(1, 10000)))
        high == RMin(rc.absolute_max_consumption, share(Rat(5, 100)))
    IN  ~RLess(drop, low) /\ RLess(high, drop)

UsedHoursOf(seconds) ==
    /\ last.tank.consumption_rate = RateAt(seconds)
    /\ last.tank.consumption_anomaly = AnomalyAt(seconds)

\* C39 as stated: the first successful cycle after a failed cycle uses the
\* retry or the maintenance interval, every other one the normal interval.
C39_AsStated ==
    DropInCycle =>
        IF cycle_error = "none"
        THEN UsedHoursOf(normal_interval)
        ELSE UsedHoursOf(retry_interval) \/ UsedHoursOf(SECONDS_PER_HOUR)

\* C39: the hours used for the rate and the adaptive thresholds are those of
\* the poll interval in force when the cycle runs.  That interval is the
\* normal one after a successful cycle and in the first cycle, the retry
\* interval after a communication or other client error, one hour after a
\* maintenance error; a cycle that failed with an authentication error
\* leaves the interval as the cycle before it left it.
C39_IntervalInForce ==
    /\ [](DropInCycle => UsedHoursOf(update_interval))
    /\ [](phase = "processing" =>
              CASE cycle_error = "none" -> update_interval = normal_interval
                [] cycle_error = "maintenance" -> update_interval = SECONDS_PER_HOUR
                [] cycle_error \in {"comm", "client"} -> update_interval = retry_interval
                [] OTHER -> update_interval \in
                                {normal_interval, retry_interval, SECONDS_PER_HOUR})
    /\ [][(cycles' = cycles + 1 /\ cycle_error' = "auth") =>
              update_interval' = update_interval]_vars

\* a drop processed in the first cycle after a communication error: rate and
\* anomaly flag are those of the retry interval, not of the normal one
C39_Witness ==
    /\ DropInCycle
    /\ cycle_error = "comm"
    /\ update_interval = retry_interval
    /\ UsedHoursOf(retry_interval)
    /\ ~UsedHoursOf(normal_interval)

\* the call is in the page loop of _get_tanks_from_api
InPageLoop(l) ==
    /\ l.op = "fetchTanks"
    /\ \/ l.pc \in {"page", "pagesleep"}
       \/ l.pc \in {"csrfpage", "csrfsleep"} /\ l.stage = "page"

\* C40: the paginated fetch terminates against a server that ends the
\* pagination within MaxPages pages, whatever attempts fail in between.
\* While the page loop runs, a step that accepts a page raises the offset by
\* exactly the page size and restarts the retry counter at 1, every other
\* step leaves the offset alone; the offset of the loop lies beyond every
\* accepted page, so none is requested again; the retry counter stays
\* within 1..maxApiRetries.
C40_PaginationTerminates ==
    /\ [][\A c \in Callers :
              (InPageLoop(loc[c]) /\ InPageLoop(loc[c]')) =>
                  IF Len(ghost[c].pages') = Len(ghost[c].pages) + 1
                  THEN /\ loc[c].offset' = loc[c].offset + _TANK_PAGE_SIZE
                       /\ ghost[c].pages'[Len(ghost[c].pages')].offset = loc[c].offset
                       /\ loc[c].page_attempt' = 1
                  ELSE /\ loc[c].offset' = loc[c].offset
                       /\ ghost[c].pages' = ghost[c].pages
                       /\ loc[c].page_attempt' >= loc[c].page_attempt]_vars
    /\ [](\A c \in Callers :
              InPageLoop(loc[c]) =>
                  /\ \A i \in 1..Len(ghost[c].pages) :
                         ghost[c].pages[i].offset < loc[c].offset
                  /\ loc[c].page_attempt \in 1..maxApiRetries)
    /\ \A c \in Callers : InPageLoop(loc[c]) ~> (loc[c].pc = "idle")

\* the second page is requested for the last time allowed, after a full
\* first page was accepted and every earlier attempt at the second failed
C40_Witness ==
    \E c \in Callers :
        /\ InPageLoop(loc[c]) /\ loc[c].pc = "page"
        /\ loc[c].offset = _TANK_PAGE_SIZE
        /\ Len(ghost[c].pages) = 1
        /\ loc[c].page_attempt = maxApiRetries

====
